---------------------------- MODULE Spec2Model ----------------------------
(***************************************************************************)
(* Model of the Reddit insight analyzer: text cleaning (text_processor),   *)
(* sentiment, themes and ranking (nlp_analyzer), report synthesis with the *)
(* optional generative capability (report_generator, ollama_insights) and  *)
(* the pipeline that runs them in order (app.run_analysis).                *)
(*                                                                         *)
(* Text is a sequence of characters, each character a one-character        *)
(* string; an emoji code point is one element named by its code point.     *)
(***************************************************************************)
EXTENDS Integers, Sequences, FiniteSets, TLC

VARIABLES
    pc,                 \* position of the running operation
    text,               \* clean_text: the input string
    cleaned,            \* clean_text: the returned string
    raw_posts,          \* run_analysis: the fetched RedditPost list
    mode,               \* run_analysis: the analysis mode string
    analyzer,           \* NLPAnalyzer: use_ml_models, _vader_analyzer, _textblob_ready
    ai,                 \* ReportGenerator.ai is not None
    top_n,              \* get_high_impact_issues: top_n
    processed_posts,    \* TextProcessor.process_posts result
    analyzed_posts,     \* NLPAnalyzer.analyze_posts result
    sentiment_dist,     \* calculate_sentiment_distribution result (tenths of a percent)
    themes,             \* extract_themes result
    high_impact,        \* get_high_impact_issues result
    executive_summary,  \* generate_executive_summary result
    product_insights,   \* generate_product_insights result
    action_items,       \* generate_full_report: action_items
    ai_enhanced,        \* generate_full_report: ai_enhanced
    report,             \* the InsightReport returned, <<>> while there is none
    response,           \* what the last generative call produced
    raised,             \* an exception escaped generate_full_report
    trace,              \* the stages executed so far, in order
    subreddit,          \* the subreddit name typed in or passed to run_analysis
    requested,          \* RedditFetcher has sent a network request
    lexicon,            \* NLPAnalyzer.SENTIMENT_LEXICON, the class attribute the scorer reads
    calls,              \* analyze_sentiment_lexicon: the calls made, with what each returned
    markdown            \* format_markdown_report: the lines returned, <<>> while there is none

vars == <<pc, text, cleaned, raw_posts, mode, analyzer, ai, top_n,
          processed_posts, analyzed_posts, sentiment_dist, themes, high_impact,
          executive_summary, product_insights, action_items, ai_enhanced,
          report, response, raised, trace, subreddit, requested, lexicon, calls, markdown>>

cleanVars == <<text, cleaned>>

entryVars == <<subreddit, requested>>

callVars == <<lexicon, calls, markdown>>

configVars == <<raw_posts, mode, analyzer, ai, top_n>>

analysisVars == <<processed_posts, analyzed_posts, sentiment_dist, themes, high_impact>>

reportVars == <<executive_summary, product_insights, action_items, ai_enhanced,
                report, response, raised>>

-----------------------------------------------------------------------------
(* Characters and strings *)

LowerChars ==
    <<"a","b","c","d","e","f","g","h","i","j","k","l","m",
      "n","o","p","q","r","s","t","u","v","w","x","y","z">>

UpperChars ==
    <<"A","B","C","D","E","F","G","H","I","J","K","L","M",
      "N","O","P","Q","R","S","T","U","V","W","X","Y","Z">>

DigitChars == {"0","1","2","3","4","5","6","7","8","9"}

Range(f) == {f[k] : k \in DOMAIN f}

UpperSet == Range(UpperChars)

LetterChars == Range(LowerChars) \cup UpperSet

\* \s of Python's re on str
SpaceChars == {" ", "\t", "\n", "\r"}

\* \w of Python's re on str
WordChars == LetterChars \cup DigitChars \cup {"_"}

\* str.lower() on the upper-case letters
LowerOf ==
    [c \in UpperSet |-> LowerChars[CHOOSE k \in DOMAIN UpperChars : UpperChars[k] = c]]

\* str.lower() on one character
LowerChar(c) == IF c \in UpperSet THEN LowerOf[c] ELSE c

\* str.lower()
Lower(s) == [k \in DOMAIN s |-> LowerChar(s[k])]

Max(S) == CHOOSE x \in S : \A y \in S : y <= x

Min(a, b) == IF a <= b THEN a ELSE b

\* s[:n]
Prefix(s, n) == SubSeq(s, 1, Min(n, Len(s)))

\* the literal lit stands in s at index i
HasLit(s, i, lit) ==
    /\ i >= 1
    /\ i + Len(lit) - 1 <= Len(s)
    /\ SubSeq(s, i, i + Len(lit) - 1) = lit

\* the literal lit stands in s at index i, ignoring case (re.IGNORECASE)
HasLitI(s, i, lit) ==
    /\ i >= 1
    /\ i + Len(lit) - 1 <= Len(s)
    /\ Lower(SubSeq(s, i, i + Len(lit) - 1)) = lit

\* kw in s
Contains(s, kw) == \E i \in 1..Len(s) : HasLit(s, i, kw)

\* the last index of the longest run of characters of class cls that starts at i
\* (i - 1 when s[i] is not of the class): a greedy cls*
RunEnd(s, i, cls) ==
    IF i > Len(s) THEN i - 1
    ELSE IF \A j \in i..Len(s) : s[j] \in cls THEN Len(s)
    ELSE (CHOOSE j \in i..Len(s) :
              s[j] \notin cls /\ \A k \in i..(j - 1) : s[k] \in cls) - 1

\* the last index of the longest run of characters outside cls that starts at i
RunEndNot(s, i, cls) ==
    IF i > Len(s) THEN i - 1
    ELSE IF \A j \in i..Len(s) : s[j] \notin cls THEN Len(s)
    ELSE (CHOOSE j \in i..Len(s) :
              s[j] \in cls /\ \A k \in i..(j - 1) : s[k] \notin cls) - 1

\* \b before the word character at index i
WordStart(s, i) == i = 1 \/ s[i - 1] \notin WordChars

\* pattern.sub(repl, s): leftmost non-overlapping matches, left to right.
\* MatchEnd(s, i) is the last index of the match that starts at i, 0 for none.
\* The text between two matches is copied in one piece.
RECURSIVE ReSub(_, _, _, _)
ReSub(MatchEnd(_, _), repl, s, i) ==
    IF \A j \in i..Len(s) : MatchEnd(s, j) < j
    THEN SubSeq(s, i, Len(s))
    ELSE LET j == CHOOSE j \in i..Len(s) :
                      MatchEnd(s, j) >= j /\ \A k \in i..(j - 1) : MatchEnd(s, k) < k
         IN  SubSeq(s, i, j - 1) \o repl \o ReSub(MatchEnd, repl, s, MatchEnd(s, j) + 1)

\* pattern.search(s) is not None
ReFound(MatchEnd(_, _), s) == \E i \in 1..Len(s) : MatchEnd(s, i) >= i

-----------------------------------------------------------------------------
(* TextProcessor: the patterns *)

\* one or more characters of cls from index i: the last index, 0 for none
Plus(s, i, cls) == IF RunEnd(s, i, cls) >= i THEN RunEnd(s, i, cls) ELSE 0

\* one or more non-space characters from index i: the last index, 0 for none
PlusNonSpace(s, i) ==
    IF RunEndNot(s, i, SpaceChars) >= i THEN RunEndNot(s, i, SpaceChars) ELSE 0

\* URL_PATTERN = https?://\S+|www\.\S+
URL_PATTERN(s, i) ==
    IF HasLit(s, i, <<"h","t","t","p",":","/","/">>)
           /\ PlusNonSpace(s, i + 7) > 0
    THEN PlusNonSpace(s, i + 7)
    ELSE IF HasLit(s, i, <<"h","t","t","p","s",":","/","/">>)
                /\ PlusNonSpace(s, i + 8) > 0
    THEN PlusNonSpace(s, i + 8)
    ELSE IF HasLit(s, i, <<"w","w","w",".">>) /\ PlusNonSpace(s, i + 4) > 0
    THEN PlusNonSpace(s, i + 4)
    ELSE 0

\* MARKDOWN_PATTERN = [*_~'#\[\]()>|] with ' the backquote, written U+0060 here
MarkdownChars == {"*", "_", "~", "U+0060", "#", "[", "]", "(", ")", ">", "|"}

\* HTML_ENTITIES = &[a-z]+;|&#\d+;  (IGNORECASE)
HTML_ENTITIES(s, i) ==
    IF HasLit(s, i, <<"&">>)
           /\ Plus(s, i + 1, LetterChars) > 0
           /\ HasLit(s, Plus(s, i + 1, LetterChars) + 1, <<";">>)
    THEN Plus(s, i + 1, LetterChars) + 1
    ELSE IF HasLit(s, i, <<"&","#">>)
                /\ Plus(s, i + 2, DigitChars) > 0
                /\ HasLit(s, Plus(s, i + 2, DigitChars) + 1, <<";">>)
    THEN Plus(s, i + 2, DigitChars) + 1
    ELSE 0

\* EMOJI_PATTERN: one representative code point of each stripped range
\* (emoticons, symbols & pictographs, transport, flags, misc symbols, dingbats)
EmojiChars == {"U+1F600", "U+1F300", "U+1F680", "U+1F1E0", "U+2600", "U+2700"}

\* REDDIT_NOISE[0] = \bedit\s*\d*\s*:  (IGNORECASE)
NOISE_EDIT(s, i) ==
    IF HasLitI(s, i, <<"e","d","i","t">>) /\ WordStart(s, i)
    THEN LET a == RunEnd(s, i + 4, SpaceChars)
             b == RunEnd(s, a + 1, DigitChars)
             c == RunEnd(s, b + 1, SpaceChars)
         IN  IF HasLit(s, c + 1, <<":">>) THEN c + 1 ELSE 0
    ELSE 0

\* REDDIT_NOISE[1] = \btl;?dr:?  (IGNORECASE)
NOISE_TLDR(s, i) ==
    IF HasLitI(s, i, <<"t","l">>) /\ WordStart(s, i)
    THEN LET a == IF HasLit(s, i + 2, <<";">>) THEN i + 3 ELSE i + 2
         IN  IF HasLitI(s, a, <<"d","r">>)
             THEN IF HasLit(s, a + 2, <<":">>) THEN a + 2 ELSE a + 1
             ELSE 0
    ELSE 0

LIT_THANKS_FOR == <<"t","h","a","n","k","s"," ","f","o","r"," ">>

LIT_READING == <<"r","e","a","d","i","n","g">>

LIT_TED_TALK ==
    <<"c","o","m","i","n","g"," ","t","o"," ","m","y"," ","t","e","d"," ","t","a","l","k">>

\* REDDIT_NOISE[2] = thanks for (reading|coming to my ted talk)  (IGNORECASE)
NOISE_THANKS(s, i) ==
    IF HasLitI(s, i, LIT_THANKS_FOR)
    THEN IF HasLitI(s, i + Len(LIT_THANKS_FOR), LIT_READING)
         THEN i + Len(LIT_THANKS_FOR) + Len(LIT_READING) - 1
         ELSE IF HasLitI(s, i + Len(LIT_THANKS_FOR), LIT_TED_TALK)
         THEN i + Len(LIT_THANKS_FOR) + Len(LIT_TED_TALK) - 1
         ELSE 0
    ELSE 0

LIT_OBLIGATORY == <<"o","b","l","i","g","a","t","o","r","y"," ">>

LIT_DISCLAIMER == <<" ","d","i","s","c","l","a","i","m","e","r">>

\* REDDIT_NOISE[3] = obligatory .* disclaimer  (IGNORECASE): .* is greedy and
\* does not cross a newline
NOISE_DISCLAIMER(s, i) ==
    IF HasLitI(s, i, LIT_OBLIGATORY)
    THEN LET from == i + Len(LIT_OBLIGATORY)
             starts == {j \in from..Len(s) :
                          /\ HasLitI(s, j, LIT_DISCLAIMER)
                          /\ \A k \in from..(j - 1) : s[k] # "\n"}
         IN  IF starts = {} THEN 0 ELSE Max(starts) + Len(LIT_DISCLAIMER) - 1
    ELSE 0

\* REDDIT_NOISE[4] = ^(source|sauce):?\s*  (IGNORECASE | MULTILINE)
NOISE_SOURCE(s, i) ==
    IF i = 1 \/ (i > 1 /\ i <= Len(s) /\ s[i - 1] = "\n")
    THEN LET a == IF HasLitI(s, i, <<"s","o","u","r","c","e">>) THEN i + 5
                  ELSE IF HasLitI(s, i, <<"s","a","u","c","e">>) THEN i + 4
                  ELSE 0
             b == IF a > 0 /\ HasLit(s, a + 1, <<":">>) THEN a + 1 ELSE a
         IN  IF a = 0 THEN 0 ELSE RunEnd(s, b + 1, SpaceChars)
    ELSE 0

\* REDDIT_NOISE[5] = \[removed\]|\[deleted\]  (IGNORECASE)
NOISE_REMOVED(s, i) ==
    IF HasLitI(s, i, <<"[","r","e","m","o","v","e","d","]">>) THEN i + 8
    ELSE IF HasLitI(s, i, <<"[","d","e","l","e","t","e","d","]">>) THEN i + 8
    ELSE 0

\* \s+
WHITESPACE(s, i) == Plus(s, i, SpaceChars)

\* the last index at or before j that holds no white space, 0 for none
LastNonSpace(s, j) ==
    IF \A k \in 1..j : s[k] \in SpaceChars THEN 0
    ELSE CHOOSE k \in 1..j :
             s[k] \notin SpaceChars /\ \A m \in (k + 1)..j : s[m] \in SpaceChars

Strip(s) == SubSeq(s, RunEnd(s, 1, SpaceChars) + 1, LastNonSpace(s, Len(s)))

IsEmoji(c) == c \in EmojiChars

\* TextProcessor.clean_text
clean_text(s) ==
    IF s = <<>> THEN <<>>
    ELSE LET c1 == ReSub(URL_PATTERN, <<>>, s, 1)
             c2 == [k \in DOMAIN c1 |-> IF c1[k] \in MarkdownChars THEN " " ELSE c1[k]]
             c3 == ReSub(HTML_ENTITIES, <<" ">>, c2, 1)
             c4 == SelectSeq(c3, LAMBDA c : ~IsEmoji(c))
             n1 == ReSub(NOISE_EDIT, <<>>, c4, 1)
             n2 == ReSub(NOISE_TLDR, <<>>, n1, 1)
             n3 == ReSub(NOISE_THANKS, <<>>, n2, 1)
             n4 == ReSub(NOISE_DISCLAIMER, <<>>, n3, 1)
             n5 == ReSub(NOISE_SOURCE, <<>>, n4, 1)
             n6 == ReSub(NOISE_REMOVED, <<>>, n5, 1)
         IN  Strip(ReSub(WHITESPACE, <<" ">>, n6, 1))

-----------------------------------------------------------------------------
(* TextProcessor: posts *)

MAX_BODY_LENGTH == 1000

MAX_COMMENTS_LENGTH == 2000

TRUNCATION_MARKER == <<".",".",".">>

COMMENT_SEPARATOR == <<" ","|"," ">>

\* sep.join(parts)
RECURSIVE Join(_, _)
Join(sep, parts) ==
    IF parts = <<>> THEN <<>>
    ELSE IF Len(parts) = 1 THEN parts[1]
    ELSE parts[1] \o sep \o Join(sep, Tail(parts))

\* the comment loop of process_post: the cleaned comments kept, in order;
\* total_len is the summed length of those kept so far
RECURSIVE KeptComments(_, _)
KeptComments(comments, total_len) ==
    IF comments = <<>> THEN <<>>
    ELSE LET c == clean_text(comments[1])
         IN  IF c # <<>> /\ total_len + Len(c) < MAX_COMMENTS_LENGTH
             THEN <<c>> \o KeptComments(Tail(comments), total_len + Len(c))
             ELSE KeptComments(Tail(comments), total_len)

\* the truncation with the limit itself counted as too long
TruncatedAtLimit(body) ==
    IF Len(body) >= MAX_BODY_LENGTH
    THEN SubSeq(body, 1, MAX_BODY_LENGTH) \o TRUNCATION_MARKER
    ELSE body

\* cleaned_body[:MAX_BODY_LENGTH] + "..." for a body that is too long
Truncated(body) ==
    IF Len(body) > MAX_BODY_LENGTH
    THEN SubSeq(body, 1, MAX_BODY_LENGTH) \o TRUNCATION_MARKER
    ELSE body

\* the ProcessedPost with the title taken once in combined_text
ProcessedPostTitleOnce(post, cleaned_title, cleaned_body, comment_texts) ==
    [id |-> post.id,
     cleaned_title |-> cleaned_title,
     cleaned_body |-> cleaned_body,
     cleaned_comments |-> Join(COMMENT_SEPARATOR, comment_texts),
     combined_text |->
         Strip(cleaned_title \o <<" ">>
                 \o cleaned_body \o <<" ">> \o Join(COMMENT_SEPARATOR, comment_texts)),
     score |-> post.score,
     num_comments |-> post.num_comments,
     has_content |-> Len(cleaned_title) > 5,
     comment_count |-> Len(comment_texts)]

\* the ProcessedPost that process_post builds from the cleaned parts
ProcessedPost(post, cleaned_title, cleaned_body, comment_texts) ==
    [id |-> post.id,
     cleaned_title |-> cleaned_title,
     cleaned_body |-> cleaned_body,
     cleaned_comments |-> Join(COMMENT_SEPARATOR, comment_texts),
     combined_text |->
         Strip(cleaned_title \o <<" ">> \o cleaned_title \o <<" ">>
                 \o cleaned_body \o <<" ">> \o Join(COMMENT_SEPARATOR, comment_texts)),
     score |-> post.score,
     num_comments |-> post.num_comments,
     has_content |-> Len(cleaned_title) > 5,
     comment_count |-> Len(comment_texts)]

\* TextProcessor.process_post
process_post(post) ==
    ProcessedPost(post, clean_text(post.title), Truncated(clean_text(post.selftext)),
                  KeptComments(post.comments, 0))

\* TextProcessor.process_posts
process_posts(posts) ==
    SelectSeq([k \in DOMAIN posts |-> process_post(posts[k])],
              LAMBDA proc : proc.has_content)

-----------------------------------------------------------------------------
(* NLPAnalyzer: tables *)

THEME_KEYWORDS ==
    <<
      [name |-> "Battery & Power",
       keywords |-> <<
         <<"b","a","t","t","e","r","y">>,
         <<"c","h","a","r","g","e">>,
         <<"c","h","a","r","g","i","n","g">>,
         <<"d","r","a","i","n">>,
         <<"p","o","w","e","r">>,
         <<"s","o","t">>,
         <<"f","a","s","t"," ","c","h","a","r","g","i","n","g">>,
         <<"w","i","r","e","l","e","s","s"," ","c","h","a","r","g","i","n","g">>,
         <<"d","e","a","d">>,
         <<"p","e","r","c","e","n","t","a","g","e">> >>],
      [name |-> "Camera & Photography",
       keywords |-> <<
         <<"c","a","m","e","r","a">>,
         <<"p","h","o","t","o">>,
         <<"p","i","c","t","u","r","e">>,
         <<"l","e","n","s">>,
         <<"z","o","o","m">>,
         <<"p","o","r","t","r","a","i","t">>,
         <<"n","i","g","h","t"," ","s","i","g","h","t">>,
         <<"v","i","d","e","o">>,
         <<"r","e","c","o","r","d","i","n","g">>,
         <<"s","e","l","f","i","e">>,
         <<"m","e","g","a","p","i","x","e","l">> >>],
      [name |-> "Software & Updates",
       keywords |-> <<
         <<"u","p","d","a","t","e">>,
         <<"a","n","d","r","o","i","d">>,
         <<"s","o","f","t","w","a","r","e">>,
         <<"b","u","g">>,
         <<"p","a","t","c","h">>,
         <<"f","i","x">>,
         <<"f","e","a","t","u","r","e">>,
         <<"a","p","p">>,
         <<"v","e","r","s","i","o","n">>,
         <<"b","e","t","a">>,
         <<"s","t","a","b","l","e">> >>],
      [name |-> "Hardware Quality",
       keywords |-> <<
         <<"s","c","r","e","e","n">>,
         <<"d","i","s","p","l","a","y">>,
         <<"b","u","i","l","d">>,
         <<"q","u","a","l","i","t","y">>,
         <<"g","l","a","s","s">>,
         <<"s","p","e","a","k","e","r">>,
         <<"f","i","n","g","e","r","p","r","i","n","t">>,
         <<"c","r","a","c","k">>,
         <<"s","c","r","a","t","c","h">>,
         <<"d","u","r","a","b","l","e">>,
         <<"d","e","s","i","g","n">> >>],
      [name |-> "Performance",
       keywords |-> <<
         <<"p","e","r","f","o","r","m","a","n","c","e">>,
         <<"f","a","s","t">>,
         <<"s","l","o","w">>,
         <<"l","a","g">>,
         <<"s","m","o","o","t","h">>,
         <<"h","e","a","t">>,
         <<"o","v","e","r","h","e","a","t","i","n","g">>,
         <<"h","o","t">>,
         <<"t","h","r","o","t","t","l","e">>,
         <<"r","a","m">>,
         <<"m","e","m","o","r","y">>,
         <<"s","p","e","e","d">> >>],
      [name |-> "Customer Support",
       keywords |-> <<
         <<"s","u","p","p","o","r","t">>,
         <<"w","a","r","r","a","n","t","y">>,
         <<"r","m","a">>,
         <<"r","e","p","a","i","r">>,
         <<"r","e","p","l","a","c","e","m","e","n","t">>,
         <<"r","e","f","u","n","d">>,
         <<"r","e","t","u","r","n">>,
         <<"g","o","o","g","l","e">>,
         <<"r","e","s","p","o","n","s","e">>,
         <<"s","h","i","p","p","i","n","g">> >>],
      [name |-> "Connectivity",
       keywords |-> <<
         <<"w","i","f","i">>,
         <<"b","l","u","e","t","o","o","t","h">>,
         <<"s","i","g","n","a","l">>,
         <<"n","e","t","w","o","r","k">>,
         <<"5","g">>,
         <<"l","t","e">>,
         <<"c","o","n","n","e","c","t","i","o","n">>,
         <<"d","r","o","p">>,
         <<"e","s","i","m">>,
         <<"c","a","r","r","i","e","r">>,
         <<"c","e","l","l","u","l","a","r">> >>]
    >>

\* SENTIMENT_LEXICON, as <<word, weight>> pairs
SENTIMENT_LEXICON ==
    <<
      <<<<"a","m","a","z","i","n","g">>, 5>>,
      <<<<"e","x","c","e","l","l","e","n","t">>, 5>>,
      <<<<"p","e","r","f","e","c","t">>, 5>>,
      <<<<"l","o","v","e">>, 4>>,
      <<<<"g","r","e","a","t">>, 4>>,
      <<<<"a","w","e","s","o","m","e">>, 4>>,
      <<<<"f","a","n","t","a","s","t","i","c">>, 5>>,
      <<<<"w","o","n","d","e","r","f","u","l">>, 4>>,
      <<<<"b","e","s","t">>, 4>>,
      <<<<"i","m","p","r","e","s","s","e","d">>, 4>>,
      <<<<"g","o","o","d">>, 3>>,
      <<<<"n","i","c","e">>, 3>>,
      <<<<"h","a","p","p","y">>, 3>>,
      <<<<"h","e","l","p","f","u","l">>, 3>>,
      <<<<"s","m","o","o","t","h">>, 3>>,
      <<<<"f","a","s","t">>, 3>>,
      <<<<"r","e","l","i","a","b","l","e">>, 3>>,
      <<<<"s","o","l","i","d">>, 3>>,
      <<<<"b","e","t","t","e","r">>, 3>>,
      <<<<"i","m","p","r","o","v","e","d">>, 3>>,
      <<<<"o","k","a","y">>, 1>>,
      <<<<"f","i","n","e">>, 1>>,
      <<<<"d","e","c","e","n","t">>, 2>>,
      <<<<"w","o","r","k","s">>, 2>>,
      <<<<"u","s","e","f","u","l">>, 2>>,
      <<<<"i","s","s","u","e">>, -1>>,
      <<<<"c","o","n","c","e","r","n">>, -1>>,
      <<<<"c","o","n","f","u","s","i","n","g">>, -1>>,
      <<<<"m","e","d","i","o","c","r","e">>, -1>>,
      <<<<"b","a","d">>, -2>>,
      <<<<"p","o","o","r">>, -2>>,
      <<<<"p","r","o","b","l","e","m">>, -2>>,
      <<<<"a","n","n","o","y","i","n","g">>, -2>>,
      <<<<"d","i","s","a","p","p","o","i","n","t","e","d">>, -3>>,
      <<<<"f","r","u","s","t","r","a","t","i","n","g">>, -2>>,
      <<<<"s","l","o","w">>, -2>>,
      <<<<"l","a","g","g","y">>, -2>>,
      <<<<"b","u","g","g","y">>, -2>>,
      <<<<"b","r","o","k","e","n">>, -2>>,
      <<<<"c","r","a","s","h">>, -2>>,
      <<<<"e","r","r","o","r">>, -2>>,
      <<<<"f","a","i","l">>, -2>>,
      <<<<"f","a","i","l","e","d">>, -2>>,
      <<<<"f","r","e","e","z","i","n","g">>, -2>>,
      <<<<"t","e","r","r","i","b","l","e">>, -4>>,
      <<<<"a","w","f","u","l">>, -4>>,
      <<<<"h","o","r","r","i","b","l","e">>, -4>>,
      <<<<"w","o","r","s","t">>, -4>>,
      <<<<"h","a","t","e">>, -3>>,
      <<<<"u","s","e","l","e","s","s">>, -3>>,
      <<<<"d","e","f","e","c","t","i","v","e">>, -3>>,
      <<<<"g","a","r","b","a","g","e">>, -3>>,
      <<<<"w","a","s","t","e">>, -3>>,
      <<<<"s","c","a","m">>, -4>>
    >>
-----------------------------------------------------------------------------
(* The posts of the model *)

RedditPost(id, title, selftext, score, num_comments, comments) ==
    [id |-> id, title |-> title, selftext |-> selftext, score |-> score,
     num_comments |-> num_comments, comments |-> comments]

POST_BATTERY ==
    RedditPost("p1",
        <<"T","e","r","r","i","b","l","e"," ","b","a","t","t","e","r","y"," ","d","r","a","i","n">>,
        <<>>, 5, 2, << <<"g","r","e","a","t"," ","c","a","m","e","r","a">> >>)

POST_CAMERA ==
    RedditPost("p2",
        <<"L","o","v","e"," ","t","h","i","s"," ","c","a","m","e","r","a",","," ","a","m","a","z","i","n","g"," ","q","u","a","l","i","t","y">>,
        <<>>, 8, 1, <<>>)

POST_UNBOXED ==
    RedditPost("p3",
        <<"J","u","s","t"," ","u","n","b","o","x","e","d"," ","m","y"," ","n","e","w"," ","p","h","o","n","e">>,
        <<>>, 3, 4, <<>>)

POST_SHORT == RedditPost("p4", <<"H","i"," ","*">>, <<>>, 1, 0, <<>>)

POST_UPDATE ==
    RedditPost("p5",
        <<"U","p","d","a","t","e"," ","b","r","o","k","e"," ","w","i","f","i",","," ","s","c","r","e","e","n"," ","l","a","g",","," ","r","e","f","u","n","d","?">>,
        <<"h","t","t","p","s",":","/","/","x",".","c","o"," ","s","u","p","p","o","r","t">>,
        -2, 9, <<>>)

POST_CRASHES ==
    RedditPost("p8",
        <<"T","e","r","r","i","b","l","e"," ","b","a","t","t","e","r","y",","," ","c","r","a","s","h","e","s"," ","c","o","n","s","t","a","n","t","l","y",","," ","w","a","s","t","e"," ","o","f"," ","m","o","n","e","y">>,
        <<>>, 2, 6, <<>>)

\* one clearly positive, one clearly negative and one neutral document
SCENARIO_A == <<POST_CAMERA, POST_CRASHES, POST_UNBOXED>>

\* the posts a fetch may return
PostPool == <<POST_BATTERY, POST_CAMERA, POST_UNBOXED, POST_SHORT, POST_UPDATE>>

RawPosts == Range(PostPool)

\* the posts of the pool that survive process_posts
ProcessedPool == Range(process_posts(PostPool))

-----------------------------------------------------------------------------
(* NLPAnalyzer: sentiment *)

\* re.findall(r'\b\w+\b', s): the maximal runs of word characters from index i on
RECURSIVE FindWords(_, _)
FindWords(s, i) ==
    IF i > Len(s) THEN <<>>
    ELSE IF s[i] \in WordChars
    THEN LET e == RunEnd(s, i, WordChars)
         IN  <<SubSeq(s, i, e)>> \o FindWords(s, e + 1)
    ELSE FindWords(s, i + 1)

\* word in self.SENTIMENT_LEXICON
InLexicon(word) == \E k \in DOMAIN lexicon : lexicon[k][1] = word

\* self.SENTIMENT_LEXICON[word]
LexiconWeight(word) ==
    lexicon[CHOOSE k \in DOMAIN lexicon : lexicon[k][1] = word][2]

RECURSIVE SumWeights(_)
SumWeights(words) ==
    IF words = <<>> THEN 0
    ELSE LexiconWeight(words[1]) + SumWeights(Tail(words))

Abs(x) == IF x < 0 THEN -x ELSE x

\* A real number is kept exactly, as num / (den * sqrt(root)).
Real(num, root, den) == [num |-> num, root |-> root, den |-> den]

\* x > 1/2 and x < -1/2 for such a number
GtHalf(x) == x.num > 0 /\ 4 * x.num * x.num > x.den * x.den * x.root

LtMinusHalf(x) == x.num < 0 /\ 4 * x.num * x.num > x.den * x.den * x.root

\* the scorer with a running score kept from one call to the next
AnalyzeWithCarriedScore(txt) ==
    LET matched == SelectSeq(FindWords(Lower(txt), 1), InLexicon)
        carried == IF calls = <<>> THEN 0 ELSE calls[Len(calls)].result.raw_score.num
        score == SumWeights(matched) + carried
        normalized == IF Len(matched) > 0 THEN Real(score, Len(matched), 1)
                      ELSE Real(0, 1, 1)
    IN  [label |-> IF GtHalf(normalized) THEN "positive"
                   ELSE IF LtMinusHalf(normalized) THEN "negative"
                   ELSE "neutral",
         score |-> Real(Abs(normalized.num), normalized.root, 5),
         raw_score |-> normalized]

\* the scorer dividing by the number of matched words, not by its square root
AnalyzeDividedByCount(txt) ==
    LET matched == SelectSeq(FindWords(Lower(txt), 1), InLexicon)
        score == SumWeights(matched)
        normalized == IF Len(matched) > 0 THEN Real(score, 1, Len(matched))
                      ELSE Real(0, 1, 1)
    IN  [label |-> IF GtHalf(normalized) THEN "positive"
                   ELSE IF LtMinusHalf(normalized) THEN "negative"
                   ELSE "neutral",
         score |-> Real(Abs(normalized.num), normalized.root, 5 * normalized.den),
         raw_score |-> normalized]

\* NLPAnalyzer.analyze_sentiment_lexicon
analyze_sentiment_lexicon(txt) ==
    LET words == FindWords(Lower(txt), 1)
        matched == SelectSeq(words, InLexicon)
        score == SumWeights(matched)
        word_count == Len(matched)
        normalized == IF word_count > 0 THEN Real(score, word_count, 1)
                      ELSE Real(0, 1, 1)
        label == IF GtHalf(normalized) THEN "positive"
                 ELSE IF LtMinusHalf(normalized) THEN "negative"
                 ELSE "neutral"
    IN  [label |-> label,
         score |-> Real(Abs(normalized.num), normalized.root, 5),
         raw_score |-> normalized]

\* VADER's compound score and TextBlob's polarity are in thousandths; the
\* thresholds 0.05 and -0.05 are 500 and -500 ten-thousandths.
CompoundLabel(tenThousandths) ==
    IF tenThousandths >= 500 THEN "positive"
    ELSE IF tenThousandths <= -500 THEN "negative"
    ELSE "neutral"

\* NLPAnalyzer.analyze_sentiment_ml; ml is what the two libraries answer for
\* this text: compound, polarity, and whether TextBlob raised
analyze_sentiment_ml(an, txt, ml) ==
    IF ~an.vader THEN analyze_sentiment_lexicon(txt)
    ELSE LET vader == 10 * ml.compound
             combined == 6 * ml.compound + 4 * ml.polarity
             compound == IF an.textblob /\ ~ml.textblob_raises THEN combined
                         ELSE vader
         IN  [label |-> CompoundLabel(compound),
              score |-> Real(Abs(compound), 1, 10000),
              raw_score |-> Real(compound, 1, 10000)]

\* NLPAnalyzer.analyze_sentiment
analyze_sentiment(an, txt, ml) ==
    IF an.use_ml_models /\ an.vader
    THEN analyze_sentiment_ml(an, txt, ml)
    ELSE analyze_sentiment_lexicon(txt)

NEGATIVE_WEIGHT == 10

\* analyze_posts without the weight of a negative label
AnalyzedPostNoBonus(an, post, ml) ==
    [id |-> post.id,
     title |-> post.cleaned_title,
     body |-> post.cleaned_body,
     cleaned_comments |-> post.cleaned_comments,
     score |-> post.score,
     num_comments |-> post.num_comments,
     sentiment |-> analyze_sentiment(an, post.combined_text, ml),
     impact_score |-> post.score + post.num_comments]

\* the body of the loop of analyze_posts
AnalyzedPost(an, post, ml) ==
    LET sentiment == analyze_sentiment(an, post.combined_text, ml)
        negative_weight == IF sentiment.label = "negative" THEN NEGATIVE_WEIGHT ELSE 0
    IN  [id |-> post.id,
         title |-> post.cleaned_title,
         body |-> post.cleaned_body,
         cleaned_comments |-> post.cleaned_comments,
         score |-> post.score,
         num_comments |-> post.num_comments,
         sentiment |-> sentiment,
         impact_score |-> post.score + post.num_comments + negative_weight]

\* NLPAnalyzer.analyze_posts; mls[k] is what the libraries answer for post k
analyze_posts(an, posts, mls) ==
    [k \in DOMAIN posts |-> AnalyzedPost(an, posts[k], mls[k])]

-----------------------------------------------------------------------------
(* NLPAnalyzer: distribution, themes, ranking *)

\* the number of posts with the label
CountLabel(posts, label) ==
    Cardinality({k \in DOMAIN posts : posts[k].sentiment.label = label})

\* round(count / total * 100): to a whole percent, in tenths
RoundPercentWhole(count, total) ==
    LET q == (count * 100) \div total
        r == (count * 100) % total
    IN  IF 2 * r > total THEN 10 * (q + 1)
        ELSE IF 2 * r < total THEN 10 * q
        ELSE IF q % 2 = 0 THEN 10 * q ELSE 10 * (q + 1)

\* round(count / total * 100, 1), in tenths of a percent; a tie goes to the
\* even tenth, as Python's round does
RoundPercent(count, total) ==
    LET q == (count * 1000) \div total
        r == (count * 1000) % total
    IN  IF 2 * r > total THEN q + 1
        ELSE IF 2 * r < total THEN q
        ELSE IF q % 2 = 0 THEN q ELSE q + 1

\* the distribution with neutral as what the other two leave of 100
DistributionNeutralRemainder(posts) ==
    IF posts = <<>> THEN [positive |-> 0, neutral |-> 0, negative |-> 0]
    ELSE [positive |-> RoundPercent(CountLabel(posts, "positive"), Len(posts)),
          neutral |-> 1000 - RoundPercent(CountLabel(posts, "positive"), Len(posts))
                           - RoundPercent(CountLabel(posts, "negative"), Len(posts)),
          negative |-> RoundPercent(CountLabel(posts, "negative"), Len(posts))]

\* NLPAnalyzer.calculate_sentiment_distribution
calculate_sentiment_distribution(posts) ==
    IF posts = <<>> THEN [positive |-> 0, neutral |-> 0, negative |-> 0]
    ELSE [positive |-> RoundPercent(CountLabel(posts, "positive"), Len(posts)),
          neutral |-> RoundPercent(CountLabel(posts, "neutral"), Len(posts)),
          negative |-> RoundPercent(CountLabel(posts, "negative"), Len(posts))]

\* sorted(s, key=Key, reverse=True): a stable sort, equal keys keep their order
InsertDesc(Key(_), sorted, x) ==
    LET k == Cardinality({i \in DOMAIN sorted : Key(sorted[i]) >= Key(x)})
    IN  SubSeq(sorted, 1, k) \o <<x>> \o SubSeq(sorted, k + 1, Len(sorted))

RECURSIVE SortedDesc(_, _)
SortedDesc(Key(_), s) ==
    IF s = <<>> THEN <<>>
    ELSE InsertDesc(Key, SortedDesc(Key, SubSeq(s, 1, Len(s) - 1)), s[Len(s)])

\* the text of a post taken with its comments
ThemeTextWithComments(post) ==
    Lower(post.title \o <<" ">> \o post.body \o <<" ">> \o post.cleaned_comments)

\* f"{post.title} {post.body}".lower()
ThemeText(post) == Lower(post.title \o <<" ">> \o post.body)

\* sum(1 for kw in keywords if kw in text)
Matches(keywords, txt) ==
    Cardinality({k \in DOMAIN keywords : Contains(txt, keywords[k])})

ThemeNames == {THEME_KEYWORDS[k].name : k \in DOMAIN THEME_KEYWORDS}

KeywordsOf(name) ==
    THEME_KEYWORDS[CHOOSE k \in DOMAIN THEME_KEYWORDS : THEME_KEYWORDS[k].name = name].keywords

\* the theme texts of the pool's posts
PoolThemeTexts ==
    {Lower(p.cleaned_title \o <<" ">> \o p.cleaned_body) : p \in ProcessedPool}

\* Matches of every theme on the texts of the pool, evaluated once
PoolMatches ==
    [txt \in PoolThemeTexts |-> [name \in ThemeNames |-> Matches(KeywordsOf(name), txt)]]

\* the matches of a theme on a text, from the table where the table has the text
MatchesIn(table, theme, txt) ==
    IF txt \in DOMAIN table
    THEN table[txt][theme.name]
    ELSE Matches(theme.keywords, txt)

\* matches, for one theme and one post
ThemeMatches(theme, post) == MatchesIn(PoolMatches, theme, ThemeText(post))

\* matches of the theme, post by post
PostMatches(posts, theme) == [k \in DOMAIN posts |-> ThemeMatches(theme, posts[k])]

\* the posts, by index, that match the theme
Hits(matches) == {k \in DOMAIN matches : matches[k] > 0}

MatchingPosts(posts, theme) == Hits(PostMatches(posts, theme))

RECURSIVE SumOver(_, _)
SumOver(f, S) ==
    IF S = {} THEN 0
    ELSE LET x == CHOOSE x \in S : TRUE
         IN  f[x] + SumOver(f, S \ {x})

MAX_EXAMPLES == 2

EXAMPLE_LENGTH == 70

MAX_THEMES == 6

\* Mood taking a fraction of exactly one half as predominant
MoodFromHalf(neg, pos, total) ==
    IF total > 0
    THEN IF 2 * neg >= total THEN "negative"
         ELSE IF 2 * pos >= total THEN "positive"
         ELSE "mixed"
    ELSE "neutral"

\* predominant sentiment of a theme
Mood(neg, pos, total) ==
    IF total > 0
    THEN IF 2 * neg > total THEN "negative"
         ELSE IF 2 * pos > total THEN "positive"
         ELSE "mixed"
    ELSE "neutral"

Explanation(mood, neg, pos, total, count) ==
    IF mood = "negative"
    THEN [template |-> "Predominantly negative", value |-> (neg * 100) \div total]
    ELSE IF mood = "positive"
    THEN [template |-> "Mostly positive", value |-> (pos * 100) \div total]
    ELSE IF mood = "mixed"
    THEN [template |-> "Mixed feedback", value |-> count]
    ELSE [template |-> "mentions in discussions", value |-> count]

\* titles of the last posts that match
ExamplesLastSeen(posts, hitSeq) ==
    [k \in 1..Min(MAX_EXAMPLES, Len(hitSeq)) |->
        Prefix(posts[hitSeq[Len(hitSeq) - Min(MAX_EXAMPLES, Len(hitSeq)) + k]].title,
               EXAMPLE_LENGTH)]

\* titles of the first posts that match
Examples(posts, hitSeq) ==
    [k \in 1..Min(MAX_EXAMPLES, Len(hitSeq)) |-> Prefix(posts[hitSeq[k]].title, EXAMPLE_LENGTH)]

LabelCount(posts, hit, label) ==
    Cardinality({k \in hit : posts[k].sentiment.label = label})

ThemeEntry(theme, count, neg, pos, total, examples) ==
    [name |-> theme.name,
     count |-> count,
     mood |-> Mood(neg, pos, total),
     explanation |-> Explanation(Mood(neg, pos, total), neg, pos, total, count),
     examples |-> examples]

ThemeTotals(posts, theme, matches, hit) ==
    ThemeEntry(theme,
               SumOver(matches, hit),
               LabelCount(posts, hit, "negative"),
               LabelCount(posts, hit, "positive"),
               Cardinality(hit),
               Examples(posts, SelectSeq([k \in DOMAIN posts |-> k], LAMBDA k : k \in hit)))

ThemeHits(posts, theme, matches) == ThemeTotals(posts, theme, matches, Hits(matches))

\* the result entry of extract_themes for one theme
ThemeResult(posts, theme) == ThemeHits(posts, theme, PostMatches(posts, theme))

ThemeCount(t) == t.count

\* extract_themes without the count filter and without the cut to six
ExtractEveryTheme(posts) ==
    SortedDesc(ThemeCount,
               [k \in DOMAIN THEME_KEYWORDS |-> ThemeResult(posts, THEME_KEYWORDS[k])])

\* NLPAnalyzer.extract_themes
extract_themes(posts) ==
    LET all == [k \in DOMAIN THEME_KEYWORDS |-> ThemeResult(posts, THEME_KEYWORDS[k])]
        results == SelectSeq(all, LAMBDA t : t.count > 0)
    IN  Prefix(SortedDesc(ThemeCount, results), MAX_THEMES)

TITLE_LENGTH == 100

ImpactScore(p) == p.impact_score

\* the dict get_high_impact_issues builds for one post
Issue(p) ==
    [title |-> Prefix(p.title, TITLE_LENGTH),
     impact_score |-> p.impact_score,
     score |-> p.score,
     comments |-> p.num_comments,
     sentiment |-> p.sentiment.label]

\* get_high_impact_issues sorting without reverse=True
LowImpactIssues(posts, n) ==
    LET sorted_posts == SortedDesc(LAMBDA p : 0 - p.impact_score, posts)
        top == Prefix(sorted_posts, n)
    IN  [k \in DOMAIN top |-> Issue(top[k])]

\* NLPAnalyzer.get_high_impact_issues (n >= 0)
get_high_impact_issues(posts, n) ==
    LET sorted_posts == SortedDesc(ImpactScore, posts)
        top == Prefix(sorted_posts, n)
    IN  [k \in DOMAIN top |-> Issue(top[k])]
-----------------------------------------------------------------------------
(* AIInsights: the generative capability *)

\* What one call of AIInsights._generate gives back.  raises: the call ends in
\* an exception; none: the provider's content is None; len: the length of the
\* text; braces: re.search(r'\{[\s\S]*\}', text) finds a match; json_ok:
\* json.loads accepts the match; obj: the dict json.loads returns.
Response(raises, none, len, braces, json_ok, obj) ==
    [raises |-> raises, none |-> none, len |-> len, braces |-> braces,
     json_ok |-> json_ok, obj |-> obj]

NoObject == [k \in {} |-> <<>>]

AI_INSIGHTS_OBJECT ==
    [likes |-> << <<"B","a","t","t","e","r","y"," ","l","i","f","e">> >>,
     frustrations |-> << <<"F","i","x"," ","c","a","m","e","r","a"," ","c","r","a","s","h">> >>,
     improving |-> <<"Camera">>,
     worsening |-> <<"Battery">>,
     opportunities |-> <<"Fast charging">>]

\* the structure generate_deep_insights returns when parsing fails; a model
\* may also answer with it
EMPTY_STRUCTURE ==
    [likes |-> <<>>, frustrations |-> <<>>, improving |-> <<>>,
     worsening |-> <<>>, opportunities |-> <<>>]

AI_ITEMS_OBJECT ==
    [items |-> << [action |-> "Fix camera crashing bug on startup",
                   priority |-> "High", team |-> "Engineering"] >>]

\* ReportGenerator.generate_executive_summary: len(ai_summary) > 50
MIN_AI_SUMMARY_LENGTH == 50

\* the lengths of the answers
LEN_SHORT == 20

\* a long answer is just over the minimum length of a summary
LEN_LONG == MIN_AI_SUMMARY_LENGTH + 1

\* the answers the generative capability gives in this model
Responses ==
    { Response(TRUE, FALSE, 0, FALSE, FALSE, NoObject),            \* raises
      Response(FALSE, TRUE, 0, FALSE, FALSE, NoObject),            \* None
      Response(FALSE, FALSE, 0, FALSE, FALSE, NoObject),           \* ""
      \* prose of exactly the minimum length of a summary, and of one more
      Response(FALSE, FALSE, MIN_AI_SUMMARY_LENGTH, FALSE, FALSE, NoObject),
      Response(FALSE, FALSE, LEN_LONG, FALSE, FALSE, NoObject),
      Response(FALSE, FALSE, LEN_LONG, TRUE, FALSE, NoObject),     \* malformed JSON
      Response(FALSE, FALSE, LEN_LONG, TRUE, TRUE, AI_INSIGHTS_OBJECT),
      Response(FALSE, FALSE, LEN_LONG, TRUE, TRUE, EMPTY_STRUCTURE),
      Response(FALSE, FALSE, LEN_LONG, TRUE, TRUE, AI_ITEMS_OBJECT),
      Response(FALSE, FALSE, LEN_SHORT, TRUE, TRUE, NoObject) }    \* "{}"

\* the try block of generate_deep_insights and generate_action_items: the
\* response parses to a dict (a None response raises inside the try)
Parses(r) == ~r.none /\ r.braces /\ r.json_ok

\* AIInsights.generate_deep_insights, from the response on
generate_deep_insights(r) ==
    IF Parses(r) THEN r.obj ELSE EMPTY_STRUCTURE

\* AIInsights.generate_action_items, from the response on
generate_action_items(r) ==
    IF Parses(r)
    THEN IF "items" \in DOMAIN r.obj THEN r.obj["items"] ELSE <<>>
    ELSE <<>>

-----------------------------------------------------------------------------
(* ReportGenerator *)

\* f"{x:.0f}" of a percentage kept in tenths: to the nearest integer, a tie to
\* the even one
Format0(tenths) ==
    LET q == tenths \div 10
        r == tenths % 10
    IN  IF r > 5 THEN q + 1
        ELSE IF r < 5 THEN q
        ELSE IF q % 2 = 0 THEN q ELSE q + 1

\* max(s, key=Key): the first element with the largest key
FirstMax(Key(_), s) ==
    s[CHOOSE i \in DOMAIN s :
          /\ \A j \in DOMAIN s : Key(s[j]) <= Key(s[i])
          /\ \A j \in 1..(i - 1) : Key(s[j]) < Key(s[i])]

PostScore(p) == p.score

NumComments(p) == p.num_comments

IsPositive(p) == p.sentiment.label = "positive"

IsNegative(p) == p.sentiment.label = "negative"

Sentence(name, numbers, texts) == [sentence |-> name, numbers |-> numbers, texts |-> texts]

\* the rule-based summary with a headline template chosen from 50% on
RuleSummaryFromHalf(posts, thms, dist) ==
    LET total == Len(posts)
        neg == dist.negative
        pos == dist.positive
        neu == dist.neutral
        headline ==
            IF neg >= 500
            THEN Sentence("predominantly negative", <<total, Format0(neg)>>, <<>>)
            ELSE IF pos >= 500
            THEN Sentence("generally positive", <<total, Format0(pos)>>, <<>>)
            ELSE Sentence("mixed",
                          <<total, Format0(pos), Format0(neu), Format0(neg)>>, <<>>)
        top_themes == [k \in DOMAIN Prefix(thms, 3) |-> thms[k].name]
        negative_posts == SelectSeq(posts, IsNegative)
        positive_posts == SelectSeq(posts, IsPositive)
    IN  <<headline>>
        \o (IF thms # <<>> THEN <<Sentence("themes", <<>>, top_themes)>> ELSE <<>>)
        \o (IF negative_posts # <<>>
            THEN <<Sentence("concerns", <<>>,
                            <<Prefix(FirstMax(ImpactScore, negative_posts).title, 60)>>)>>
            ELSE <<>>)
        \o (IF positive_posts # <<>>
            THEN <<Sentence("praise", <<>>,
                            <<Prefix(FirstMax(PostScore, positive_posts).title, 50)>>)>>
            ELSE <<>>)
        \o (IF posts # <<>>
            THEN <<Sentence("engagement",
                            <<SortedDesc(NumComments, posts)[1].num_comments>>, <<>>)>>
            ELSE <<>>)

\* the rule-based summary of generate_executive_summary: summary_parts
RuleSummaryParts(posts, thms, dist) ==
    LET total == Len(posts)
        neg == dist.negative
        pos == dist.positive
        neu == dist.neutral
        headline ==
            IF neg > 500
            THEN Sentence("predominantly negative", <<total, Format0(neg)>>, <<>>)
            ELSE IF pos > 500
            THEN Sentence("generally positive", <<total, Format0(pos)>>, <<>>)
            ELSE Sentence("mixed",
                          <<total, Format0(pos), Format0(neu), Format0(neg)>>, <<>>)
        top_themes == [k \in DOMAIN Prefix(thms, 3) |-> thms[k].name]
        negative_posts == SelectSeq(posts, IsNegative)
        positive_posts == SelectSeq(posts, IsPositive)
    IN  <<headline>>
        \o (IF thms # <<>> THEN <<Sentence("themes", <<>>, top_themes)>> ELSE <<>>)
        \o (IF negative_posts # <<>>
            THEN <<Sentence("concerns", <<>>,
                            <<Prefix(FirstMax(ImpactScore, negative_posts).title, 60)>>)>>
            ELSE <<>>)
        \o (IF positive_posts # <<>>
            THEN <<Sentence("praise", <<>>,
                            <<Prefix(FirstMax(PostScore, positive_posts).title, 50)>>)>>
            ELSE <<>>)
        \o (IF posts # <<>>
            THEN <<Sentence("engagement",
                            <<SortedDesc(NumComments, posts)[1].num_comments>>, <<>>)>>
            ELSE <<>>)

Summary(source, length, parts) == [source |-> source, length |-> length, parts |-> parts]

\* generate_executive_summary taking an answer of exactly the minimum length
SummaryAcceptsMinimum(hasAi, posts, thms, dist, r) ==
    IF posts = <<>>
    THEN [raised |-> FALSE, value |-> Summary("no posts", 0, <<>>)]
    ELSE IF hasAi /\ ~r.raises /\ ~r.none /\ r.len >= MIN_AI_SUMMARY_LENGTH
    THEN [raised |-> FALSE, value |-> Summary("ai", r.len, <<>>)]
    ELSE [raised |-> FALSE,
          value |-> Summary("rule", 0, RuleSummaryParts(posts, thms, dist))]

\* ReportGenerator.generate_executive_summary; r is the answer of the
\* generative call, which is made only when hasAi.  The result carries raised:
\* an exception left the method.
generate_executive_summary(hasAi, posts, thms, dist, r) ==
    IF posts = <<>>
    THEN [raised |-> FALSE, value |-> Summary("no posts", 0, <<>>)]
    ELSE IF hasAi /\ ~r.raises /\ ~r.none /\ r.len > MIN_AI_SUMMARY_LENGTH
    THEN [raised |-> FALSE, value |-> Summary("ai", r.len, <<>>)]
    ELSE [raised |-> FALSE,
          value |-> Summary("rule", 0, RuleSummaryParts(posts, thms, dist))]

NO_LIKES ==
    <<"N","o"," ","s","t","r","o","n","g","l","y"," ","p","o","s","i","t","i","v","e"," ","p","o","s","t","s"," ","i","n"," ","t","h","i","s"," ","s","a","m","p","l","e">>

NO_FRUSTRATIONS ==
    <<"N","o"," ","s","i","g","n","i","f","i","c","a","n","t"," ","f","r","u","s","t","r","a","t","i","o","n","s"," ","d","e","t","e","c","t","e","d">>

NO_WORSENING == "No clear worsening trends detected"

NO_IMPROVING == "No clear improving trends detected"

OPPORTUNITIES == "Increase sample size for better opportunity detection"

TOP_INSIGHTS == 3

OrElse(list, placeholder) == IF list = <<>> THEN <<placeholder>> ELSE list

\* the rule-based dict of generate_product_insights
RuleInsights(posts, thms) ==
    LET positive_posts == SelectSeq(posts, IsPositive)
        negative_posts == SelectSeq(posts, IsNegative)
        topLikes == Prefix(SortedDesc(PostScore, positive_posts), TOP_INSIGHTS)
        topFrustrations == Prefix(SortedDesc(ImpactScore, negative_posts), TOP_INSIGHTS)
        likes == [k \in DOMAIN topLikes |-> Prefix(topLikes[k].title, TITLE_LENGTH)]
        frustrations ==
            [k \in DOMAIN topFrustrations |->
                Prefix(topFrustrations[k].title, TITLE_LENGTH)]
        negThemes == SelectSeq(thms, LAMBDA t : t.mood = "negative")
        posThemes == SelectSeq(thms, LAMBDA t : t.mood = "positive")
        worsening == [k \in DOMAIN negThemes |-> negThemes[k].name]
        improving == [k \in DOMAIN posThemes |-> posThemes[k].name]
    IN  [likes |-> OrElse(likes, NO_LIKES),
         frustrations |-> OrElse(frustrations, NO_FRUSTRATIONS),
         worsening |-> OrElse(worsening, NO_WORSENING),
         improving |-> OrElse(improving, NO_IMPROVING),
         opportunities |-> <<OPPORTUNITIES>>]

\* ReportGenerator.generate_product_insights; r is the answer of the
\* generative call, which is made only when hasAi
generate_product_insights(hasAi, posts, thms, r) ==
    IF hasAi /\ ~r.raises /\ DOMAIN generate_deep_insights(r) # {}
    THEN [raised |-> FALSE, value |-> generate_deep_insights(r)]
    ELSE [raised |-> FALSE, value |-> RuleInsights(posts, thms)]

\* action_items of generate_full_report: None, or the list returned
ActionItems(is_none, items) == [is_none |-> is_none, items |-> items]

\* the action-items block without its try/except
ActionItemsUnguarded(hasAi, r) ==
    IF hasAi
    THEN [raised |-> r.raises,
          action_items |-> ActionItems(r.raises, IF r.raises THEN <<>> ELSE generate_action_items(r)),
          ai_enhanced |-> ~r.raises]
    ELSE [raised |-> FALSE, action_items |-> ActionItems(TRUE, <<>>),
          ai_enhanced |-> FALSE]

\* the action-items block of ReportGenerator.generate_full_report
ActionItemsBlock(hasAi, r) ==
    IF hasAi /\ ~r.raises
    THEN [raised |-> FALSE, action_items |-> ActionItems(FALSE, generate_action_items(r)),
          ai_enhanced |-> TRUE]
    ELSE [raised |-> FALSE, action_items |-> ActionItems(TRUE, <<>>),
          ai_enhanced |-> FALSE]

\* the InsightReport that generate_full_report builds
InsightReport(n, md, summary, dist, thms, insights, issues, enhanced, items) ==
    [posts_analyzed |-> n,
     analysis_mode |-> md,
     executive_summary |-> summary,
     sentiment_distribution |-> dist,
     themes |-> thms,
     product_insights |-> insights,
     high_impact_issues |-> issues,
     ai_enhanced |-> enhanced,
     action_items |-> items]
-----------------------------------------------------------------------------
(* ReportGenerator.format_markdown_report *)

\* one appended line: the fixed text of the f-string and the values put in
Line(fmt, args) == [fmt |-> fmt, args |-> args]

BLANK == Line("", <<>>)

RULE == Line("---", <<>>)

\* the headings, written without their emoji
H_REPORT == "# Reddit Product Insight Report"

H_SUMMARY == "## Executive Summary"

H_SENTIMENT == "## Sentiment Snapshot"

H_THEMES == "## Key Themes"

H_INSIGHTS == "## Product Insights"

H_ISSUES == "## High-Impact Issues (Priority)"

\* ReportGenerator.generate_interpretation, percentages in tenths
generate_interpretation(dist) ==
    IF dist.negative > 600 THEN "Critical"
    ELSE IF dist.negative > 400 THEN "Warning"
    ELSE IF dist.positive > 600 THEN "Positive"
    ELSE IF dist.positive > 400 THEN "Healthy"
    ELSE "Mixed"

HeaderLines(rep) ==
    << Line(H_REPORT, <<>>),
       Line("**Subreddit:** r/{}", <<>>),
       Line("**Posts Analyzed:** {}", <<rep.posts_analyzed>>),
       Line("**Mode:** {}", <<rep.analysis_mode>>),
       Line("**Generated:** {}", <<>>),
       Line("**Processing Time:** {}ms", <<>>),
       BLANK >>

SummaryLines(rep) ==
    << RULE, Line(H_SUMMARY, <<>>), Line("{}", <<rep.executive_summary>>), BLANK >>

\* if report.sentiment_distribution: a dict with its three keys is never empty
SentimentLines(rep) ==
    << RULE, Line(H_SENTIMENT, <<>>),
       Line("- Positive: **{}%**", <<rep.sentiment_distribution.positive>>),
       Line("- Neutral: **{}%**", <<rep.sentiment_distribution.neutral>>),
       Line("- Negative: **{}%**", <<rep.sentiment_distribution.negative>>),
       BLANK,
       Line("*{}*", <<generate_interpretation(rep.sentiment_distribution)>>),
       BLANK >>

ThemeLines(rep) ==
    IF rep.themes = <<>> THEN <<>>
    ELSE << RULE, Line(H_THEMES, <<>>) >>
           \o [k \in DOMAIN rep.themes |->
                  Line("- **{}** - {}", <<rep.themes[k].name, rep.themes[k].explanation>>)]
           \o << BLANK >>

ItemLines(items) == [k \in DOMAIN items |-> Line("- {}", <<items[k]>>)]

\* the keys of product_insights that the renderer subscripts
RENDERED_KEYS == {"likes", "frustrations", "worsening", "improving"}

InsightLines(insights) ==
    << RULE, Line(H_INSIGHTS, <<>>), BLANK, Line("### What Users Like", <<>>) >>
       \o ItemLines(insights["likes"])
       \o << BLANK, Line("### What Frustrates Users", <<>>) >>
       \o ItemLines(insights["frustrations"])
       \o << BLANK, Line("### Trends", <<>>),
             Line("- **Worsening:** {}", <<insights["worsening"]>>),
             Line("- **Improving:** {}", <<insights["improving"]>>),
             BLANK >>

RECURSIVE IssueLines(_, _)
IssueLines(issues, i) ==
    IF i > Len(issues) THEN <<>>
    ELSE << Line("**#{}** {} {}", <<i, issues[i].sentiment, issues[i].title>>),
            Line("   - Score: {} | Comments: {} | Impact: {}",
                 <<issues[i].score, issues[i].comments, issues[i].impact_score>>) >>
           \o IssueLines(issues, i + 1)

HighImpactLines(rep) ==
    IF rep.high_impact_issues = <<>> THEN <<>>
    ELSE << RULE, Line(H_ISSUES, <<>>) >>
           \o IssueLines(rep.high_impact_issues, 1) \o << BLANK >>

\* the renderer with the themes section written for an empty list too
FormatAlwaysThemes(rep) ==
    IF ~(RENDERED_KEYS \subseteq DOMAIN rep.product_insights)
    THEN [raises |-> TRUE, lines |-> <<>>]
    ELSE [raises |-> FALSE,
          lines |-> HeaderLines(rep) \o SummaryLines(rep) \o SentimentLines(rep)
                      \o << RULE, Line(H_THEMES, <<>>) >>
                      \o InsightLines(rep.product_insights)
                      \o HighImpactLines(rep)]

\* ReportGenerator.format_markdown_report: the lines joined into the text, or
\* the KeyError of a subscript on product_insights
format_markdown_report(rep) ==
    IF ~(RENDERED_KEYS \subseteq DOMAIN rep.product_insights)
    THEN [raises |-> TRUE, lines |-> <<>>]
    ELSE [raises |-> FALSE,
          lines |-> HeaderLines(rep) \o SummaryLines(rep) \o SentimentLines(rep)
                      \o ThemeLines(rep) \o InsightLines(rep.product_insights)
                      \o HighImpactLines(rep)]
-----------------------------------------------------------------------------
(* The state before anything has run *)

NoConfig ==
    /\ raw_posts = <<>>
    /\ mode = <<>>
    /\ analyzer = [use_ml_models |-> FALSE, vader |-> FALSE, textblob |-> FALSE]
    /\ ai = FALSE
    /\ top_n = 0

NoAnalysis ==
    /\ processed_posts = <<>>
    /\ analyzed_posts = <<>>
    /\ sentiment_dist = [positive |-> 0, neutral |-> 0, negative |-> 0]
    /\ themes = <<>>
    /\ high_impact = <<>>

NoReport ==
    /\ executive_summary = <<>>
    /\ product_insights = <<>>
    /\ action_items = [is_none |-> TRUE, items |-> <<>>]
    /\ ai_enhanced = FALSE
    /\ report = <<>>
    /\ response = <<>>
    /\ raised = FALSE


NoEntry ==
    /\ subreddit = <<>>
    /\ requested = FALSE

NoCalls ==
    /\ calls = <<>>
    /\ markdown = <<>>


-----------------------------------------------------------------------------
(* clean_text on bounded inputs *)

\* the number of fragments an input string is put together from
MaxFragments == 3

\* the pieces the input strings are put together from
CleanFragments ==
    { <<"h","t","t","p">>, <<":","/","/","x">>, <<"w","w","w",".","x">>,
      <<"&">>, <<"a","m","p",";">>, <<"#","1",";">>,
      <<"U+1F600">>, <<"*">>, <<" ">>, <<"\n">>, <<"o","k">>,
      <<"t","l",";","d","r">>, <<"e","d","i","t",":">>,
      <<"t","h","a","n","k","s"," ","f","o","r"," ","r","e","a","d","i","n","g">> }

RECURSIVE Concatenations(_)
Concatenations(n) ==
    IF n = 0 THEN {<<>>}
    ELSE Concatenations(n - 1)
           \cup {s \o f : s \in Concatenations(n - 1), f \in CleanFragments}

CleanInputs == Concatenations(MaxFragments)

InitClean ==
    /\ lexicon = SENTIMENT_LEXICON
    /\ pc = "clean_text"
    /\ text \in CleanInputs
    /\ cleaned = <<>>
    /\ NoConfig
    /\ NoAnalysis
    /\ NoReport
    /\ trace = <<>>
    /\ NoEntry
    /\ NoCalls

\* one call of TextProcessor.clean_text
CleanText ==
    /\ pc = "clean_text"
    /\ cleaned' = clean_text(text)
    /\ pc' = "cleaned"
    /\ UNCHANGED <<text, entryVars, callVars, configVars, analysisVars, reportVars, trace>>

NextClean == CleanText

SpecClean == InitClean /\ [][NextClean]_vars

-----------------------------------------------------------------------------
(* Bounded inputs *)

\* the number of posts in a fetched batch
MaxPosts == 2

\* the number of posts in a list handed to generate_full_report directly
MaxReportPosts == 2

\* the number of posts in a list handed to the analyzer directly
MaxAnalyzed == 3

\* the largest top_n handed to get_high_impact_issues directly
MaxTopN == 4

\* the sequences over S of length at most n
RECURSIVE SeqsUpTo(_, _)
SeqsUpTo(S, n) ==
    IF n = 0 THEN {<<>>}
    ELSE SeqsUpTo(S, n - 1)
           \cup {Append(s, x) : s \in SeqsUpTo(S, n - 1), x \in S}

\* a listing holds every post once
Batches ==
    {s \in SeqsUpTo(RawPosts, MaxPosts) :
        \A i, j \in DOMAIN s : s[i].id = s[j].id => i = j}

SUBREDDIT_PYTHON == <<"p","y","t","h","o","n">>

\* what the subreddit text input may hold: nothing, blanks, a name, a name
\* between blanks
Subreddits ==
    { <<>>, <<" ">>, <<" ", "\t", " ">>, SUBREDDIT_PYTHON,
      <<" ">> \o SUBREDDIT_PYTHON \o <<" ">> }

MODE_THEMES ==
    <<"s","u","m","m","a","r","y"," ","+"," ","s","e","n","t","i","m","e","n","t"," ","+"," ","t","h","e","m","e","s">>

MODE_SENTIMENT ==
    <<"s","u","m","m","a","r","y"," ","+"," ","s","e","n","t","i","m","e","n","t">>

MODE_SUMMARY == <<"s","u","m","m","a","r","y","_","o","n","l","y">>

\* the options of the analysis-mode select box
Modes == {MODE_THEMES, MODE_SENTIMENT, MODE_SUMMARY}

Analyzer(use_ml_models, vader, textblob) ==
    [use_ml_models |-> use_ml_models, vader |-> vader, textblob |-> textblob]

\* NLPAnalyzer.__init__ and _load_models: lexicon only, VADER, VADER with TextBlob
AnalyzerConfigs ==
    {Analyzer(FALSE, FALSE, FALSE), Analyzer(TRUE, TRUE, FALSE), Analyzer(TRUE, TRUE, TRUE)}

MlAnswer(compound, polarity, textblob_raises) ==
    [compound |-> compound, polarity |-> polarity, textblob_raises |-> textblob_raises]

\* what VADER and TextBlob answer for a text, in thousandths
MlAnswers ==
    {MlAnswer(-500, 500, FALSE), MlAnswer(40, 500, FALSE), MlAnswer(40, 500, TRUE)}

\* the libraries answer only where they are loaded
LibraryAnswers(an) ==
    IF an.use_ml_models /\ an.vader
    THEN IF an.textblob THEN MlAnswers
         ELSE {m \in MlAnswers : ~m.textblob_raises}
    ELSE {MlAnswer(0, 0, FALSE)}

DEFAULT_TOP_N == 3

-----------------------------------------------------------------------------
(* run_analysis: the pipeline, one action per stage *)

Stage(name) == trace' = Append(trace, name)

Ran(name) == \E k \in DOMAIN trace : trace[k] = name

Init ==
    /\ lexicon = SENTIMENT_LEXICON
    /\ pc = "button"
    /\ text = <<>>
    /\ cleaned = <<>>
    /\ raw_posts = <<>>
    /\ mode \in Modes
    /\ analyzer \in AnalyzerConfigs
    /\ ai \in BOOLEAN
    /\ top_n = DEFAULT_TOP_N
    /\ NoAnalysis
    /\ NoReport
    /\ trace = <<>>
    /\ subreddit \in Subreddits
    /\ requested = FALSE
    /\ NoCalls

\* the analyze button: st.error on a blank name, else run_analysis on the
\* stripped name
AnalyzeButton ==
    /\ pc = "button"
    /\ IF Strip(subreddit) = <<>>
       THEN /\ pc' = "done"
            /\ Stage("app error")
            /\ UNCHANGED subreddit
       ELSE /\ pc' = "fetch"
            /\ subreddit' = Strip(subreddit)
            /\ UNCHANGED trace
    /\ UNCHANGED <<cleanVars, requested, callVars, configVars, analysisVars, reportVars>>

\* run_analysis called with the name as it is
RunAnalysis ==
    /\ pc = "button"
    /\ pc' = "fetch"
    /\ UNCHANGED <<cleanVars, entryVars, callVars, configVars, analysisVars, reportVars, trace>>

\* fetch_posts: ValueError on a blank name, before any request; run_analysis
\* reports it and returns None
FetchRejects ==
    /\ pc = "fetch"
    /\ Strip(subreddit) = <<>>
    /\ pc' = "done"
    /\ Stage("input error")
    /\ UNCHANGED <<cleanVars, entryVars, callVars, configVars, analysisVars, reportVars>>

\* fetch_posts sending its request whatever the name is
FetchPostsUnguarded ==
    /\ pc = "fetch"
    /\ subreddit' = Strip(subreddit)
    /\ requested' = TRUE
    /\ raw_posts' \in Batches \cup {SCENARIO_A}
    /\ pc' = "process"
    /\ Stage("fetch")
    /\ UNCHANGED <<cleanVars, callVars, mode, analyzer, ai, top_n, analysisVars, reportVars>>

\* fetcher.fetch_posts returns a batch
FetchPosts ==
    /\ pc = "fetch"
    /\ Strip(subreddit) # <<>>
    /\ subreddit' = Strip(subreddit)
    /\ requested' = TRUE
    /\ raw_posts' \in Batches \cup {SCENARIO_A}
    /\ pc' = "process"
    /\ Stage("fetch")
    /\ UNCHANGED <<cleanVars, callVars, mode, analyzer, ai, top_n, analysisVars, reportVars>>

\* the requests of fetcher.fetch_posts fail; run_analysis reports the error and
\* returns None
FetchFails ==
    /\ pc = "fetch"
    /\ Strip(subreddit) # <<>>
    /\ subreddit' = Strip(subreddit)
    /\ requested' = TRUE
    /\ pc' = "done"
    /\ Stage("fetch failed")
    /\ UNCHANGED <<cleanVars, callVars, configVars, analysisVars, reportVars>>

\* process_posts without the return on an empty result
ProcessPostsUnchecked ==
    /\ pc = "process"
    /\ processed_posts' = process_posts(raw_posts)
    /\ pc' = "analyze"
    /\ Stage("process")
    /\ UNCHANGED <<cleanVars, entryVars, callVars, configVars, analyzed_posts, sentiment_dist, themes,
                   high_impact, reportVars>>

\* processor.process_posts, and the return when nothing is left
ProcessPosts ==
    /\ pc = "process"
    /\ processed_posts' = process_posts(raw_posts)
    /\ pc' = IF processed_posts' = <<>> THEN "done" ELSE "analyze"
    /\ Stage("process")
    /\ UNCHANGED <<cleanVars, entryVars, callVars, configVars, analyzed_posts, sentiment_dist, themes,
                   high_impact, reportVars>>

\* analyzer.analyze_posts
AnalyzePosts ==
    /\ pc = "analyze"
    /\ \E mls \in [DOMAIN processed_posts -> LibraryAnswers(analyzer)] :
           analyzed_posts' = analyze_posts(analyzer, processed_posts, mls)
    /\ pc' = "distribution"
    /\ Stage("analyze")
    /\ UNCHANGED <<cleanVars, entryVars, callVars, configVars, processed_posts, sentiment_dist, themes,
                   high_impact, reportVars>>

\* analyzer.calculate_sentiment_distribution
CalculateSentimentDistribution ==
    /\ pc = "distribution"
    /\ sentiment_dist' = calculate_sentiment_distribution(analyzed_posts)
    /\ pc' = "themes"
    /\ Stage("distribution")
    /\ UNCHANGED <<cleanVars, entryVars, callVars, configVars, processed_posts, analyzed_posts, themes,
                   high_impact, reportVars>>

\* themes = [], and analyzer.extract_themes if "themes" in mode
ExtractThemes ==
    /\ pc = "themes"
    /\ themes' = IF Contains(mode, <<"t","h","e","m","e","s">>)
                 THEN extract_themes(analyzed_posts)
                 ELSE <<>>
    /\ pc' = "high_impact"
    /\ Stage("themes")
    /\ UNCHANGED <<cleanVars, entryVars, callVars, configVars, processed_posts, analyzed_posts,
                   sentiment_dist, high_impact, reportVars>>

\* the ranking done with analyzed_posts.sort(...), in place
GetHighImpactIssuesInPlace(n) ==
    /\ pc = "high_impact"
    /\ top_n' = n
    /\ high_impact' = get_high_impact_issues(analyzed_posts, n)
    /\ analyzed_posts' = SortedDesc(ImpactScore, analyzed_posts)
    /\ pc' = "stamp"
    /\ Stage("high impact")
    /\ UNCHANGED <<cleanVars, entryVars, callVars, raw_posts, mode, analyzer, ai, processed_posts,
                   sentiment_dist, themes, reportVars>>

\* analyzer.get_high_impact_issues(analyzed_posts, n)
GetHighImpactIssues(n) ==
    /\ pc = "high_impact"
    /\ top_n' = n
    /\ high_impact' = get_high_impact_issues(analyzed_posts, n)
    /\ pc' = "stamp"
    /\ Stage("high impact")
    /\ UNCHANGED <<cleanVars, entryVars, callVars, raw_posts, mode, analyzer, ai, processed_posts,
                   analyzed_posts, sentiment_dist, themes, reportVars>>

\* run_analysis ranks with the default top_n
RankIssues == GetHighImpactIssues(DEFAULT_TOP_N)

\* end_time and processing_time are taken before generate_full_report is called
StampTime ==
    /\ pc = "stamp"
    /\ pc' = "summary"
    /\ Stage("stamp")
    /\ UNCHANGED <<cleanVars, entryVars, callVars, configVars, analysisVars, reportVars>>

\* the answers of a generative call: made only when self.ai is set
Answers == IF ai THEN Responses ELSE {Response(FALSE, FALSE, 0, FALSE, FALSE, NoObject)}

Answered(r) == response' = IF ai THEN <<r>> ELSE <<>>

\* generate_full_report: self.generate_executive_summary(...)
GenerateExecutiveSummary ==
    /\ pc = "summary"
    /\ \E r \in Answers :
         LET out == generate_executive_summary(ai, analyzed_posts, themes,
                                               sentiment_dist, r)
         IN  /\ Answered(r)
             /\ raised' = out.raised
             /\ executive_summary' = IF out.raised THEN <<>> ELSE <<out.value>>
             /\ pc' = IF out.raised THEN "done" ELSE "insights"
    /\ Stage("summary")
    /\ UNCHANGED <<cleanVars, entryVars, callVars, configVars, analysisVars, product_insights,
                   action_items, ai_enhanced, report>>

\* generate_full_report: self.generate_product_insights(...)
GenerateProductInsights ==
    /\ pc = "insights"
    /\ \E r \in Answers :
         LET out == generate_product_insights(ai, analyzed_posts, themes, r)
         IN  /\ Answered(r)
             /\ raised' = out.raised
             /\ product_insights' = IF out.raised THEN <<>> ELSE <<out.value>>
             /\ pc' = IF out.raised THEN "done" ELSE "action_items"
    /\ Stage("insights")
    /\ UNCHANGED <<cleanVars, entryVars, callVars, configVars, analysisVars, executive_summary,
                   action_items, ai_enhanced, report>>

\* generate_full_report: the action-items block
GenerateActionItems ==
    /\ pc = "action_items"
    /\ \E r \in Answers :
         LET out == ActionItemsBlock(ai, r)
         IN  /\ Answered(r)
             /\ raised' = out.raised
             /\ action_items' = out.action_items
             /\ ai_enhanced' = out.ai_enhanced
             /\ pc' = IF out.raised THEN "done" ELSE "assemble"
    /\ Stage("action items")
    /\ UNCHANGED <<cleanVars, entryVars, callVars, configVars, analysisVars, executive_summary,
                   product_insights, report>>

\* generate_full_report: return InsightReport(...)
AssembleReport ==
    /\ pc = "assemble"
    /\ report' = <<InsightReport(Len(analyzed_posts), mode, executive_summary[1],
                                 sentiment_dist, themes, product_insights[1],
                                 high_impact, ai_enhanced, action_items)>>
    /\ pc' = "done"
    /\ Stage("assemble")
    /\ UNCHANGED <<cleanVars, entryVars, callVars, configVars, analysisVars, executive_summary,
                   product_insights, action_items, ai_enhanced, response, raised>>

Next ==
    \/ AnalyzeButton
    \/ RunAnalysis
    \/ FetchRejects
    \/ FetchPosts
    \/ FetchFails
    \/ ProcessPosts
    \/ AnalyzePosts
    \/ CalculateSentimentDistribution
    \/ ExtractThemes
    \/ RankIssues
    \/ StampTime
    \/ GenerateExecutiveSummary
    \/ GenerateProductInsights
    \/ GenerateActionItems
    \/ AssembleReport

Spec == Init /\ [][Next]_vars

-----------------------------------------------------------------------------
(* The analyzer called directly on bounded lists of processed posts *)

InitAnalyzer ==
    /\ lexicon = SENTIMENT_LEXICON
    /\ pc = "analyze"
    /\ text = <<>>
    /\ cleaned = <<>>
    /\ raw_posts = <<>>
    /\ mode = MODE_THEMES
    /\ analyzer \in AnalyzerConfigs
    /\ ai = FALSE
    /\ top_n = DEFAULT_TOP_N
    /\ processed_posts \in SeqsUpTo(ProcessedPool, MaxAnalyzed)
    /\ analyzed_posts = <<>>
    /\ sentiment_dist = [positive |-> 0, neutral |-> 0, negative |-> 0]
    /\ themes = <<>>
    /\ high_impact = <<>>
    /\ NoReport
    /\ trace = <<>>
    /\ NoEntry
    /\ NoCalls

\* get_high_impact_issues with any top_n
RankTopN == \E n \in 0..MaxTopN : GetHighImpactIssues(n)

NextAnalyzer ==
    \/ AnalyzePosts
    \/ CalculateSentimentDistribution
    \/ ExtractThemes
    \/ RankTopN

SpecAnalyzer == InitAnalyzer /\ [][NextAnalyzer]_vars

-----------------------------------------------------------------------------
(* generate_full_report called directly on the analysis of a bounded list *)

InitReport ==
    /\ lexicon = SENTIMENT_LEXICON
    /\ pc = "summary"
    /\ text = <<>>
    /\ cleaned = <<>>
    /\ raw_posts = <<>>
    /\ mode \in Modes
    /\ analyzer = Analyzer(FALSE, FALSE, FALSE)
    /\ ai \in BOOLEAN
    /\ top_n = DEFAULT_TOP_N
    /\ processed_posts \in SeqsUpTo(ProcessedPool, MaxReportPosts) \ {<<>>}
    /\ analyzed_posts =
           analyze_posts(analyzer, processed_posts,
                         [k \in DOMAIN processed_posts |-> MlAnswer(0, 0, FALSE)])
    /\ sentiment_dist = calculate_sentiment_distribution(analyzed_posts)
    /\ themes = IF Contains(mode, <<"t","h","e","m","e","s">>)
                THEN extract_themes(analyzed_posts)
                ELSE <<>>
    /\ high_impact = get_high_impact_issues(analyzed_posts, top_n)
    /\ NoReport
    /\ trace = <<>>
    /\ NoEntry
    /\ NoCalls

NextReport ==
    \/ GenerateExecutiveSummary
    \/ GenerateProductInsights
    \/ GenerateActionItems
    \/ AssembleReport

\* generate_full_report is one synchronous call: a step that can run does run
SpecReport == InitReport /\ [][NextReport]_vars /\ WF_vars(NextReport)
-----------------------------------------------------------------------------
(* process_post called directly on posts with long bodies and long comments *)

\* how far the body lengths reach on both sides of MAX_BODY_LENGTH
BodyMargin == 2

\* the number of comments of a post
MaxComments == 2

\* a string of n times the character c
Repeat(c, n) == [k \in 1..n |-> c]

\* what stands in front of the long run of a body: nothing, markdown that
\* cleaning turns into stripped whitespace, a URL that cleaning removes, a
\* word that cleaning keeps
BodyPrefixes ==
    { <<>>, <<"*","*">>, <<"h","t","t","p",":","/","/","x",".","c","o"," ">>,
      <<"o","k"," ">> }

BodyLengths == (MAX_BODY_LENGTH - BodyMargin)..(MAX_BODY_LENGTH + BodyMargin)

LongBodies == {p \o Repeat("a", n) : p \in BodyPrefixes, n \in BodyLengths}

\* one character, around half of MAX_COMMENTS_LENGTH, around all of it
CommentLengths ==
    { 1, (MAX_COMMENTS_LENGTH \div 2) - 1, MAX_COMMENTS_LENGTH \div 2,
      MAX_COMMENTS_LENGTH - 1, MAX_COMMENTS_LENGTH }

LongComments == {Repeat("c", n) : n \in CommentLengths}

TITLE_LONG_POST == <<"L","o","n","g"," ","p","o","s","t">>

ProcessInputs ==
    {RedditPost("p6", TITLE_LONG_POST, body, 1, 0, <<>>) : body \in LongBodies}
      \cup {RedditPost("p7", TITLE_LONG_POST, <<>>, 1, Len(cs), cs) :
                cs \in SeqsUpTo(LongComments, MaxComments)}

\* the number of posts in a list handed to process_posts directly
MaxTitlePosts == 2

\* a title of 5 characters, and one of 6 with a body and a comment
POST_FIVE == RedditPost("s1", <<"H","e","l","l","o">>, <<>>, 1, 0, <<>>)

POST_SIX ==
    RedditPost("s2", <<"H","e","l","l","o","!">>, <<"s","o","m","e"," ","b","o","d","y">>,
               1, 1, << <<"n","i","c","e">> >>)

POST_NO_TITLE == RedditPost("s3", <<>>, <<"b","a","t","t","e","r","y">>, 1, 0, <<>>)

\* posts whose titles stand around the length that has_content asks for
TitlePosts == {POST_SHORT, POST_FIVE, POST_SIX, POST_NO_TITLE}

\* process_post is called on one post, process_posts on a list
InitProcess ==
    /\ lexicon = SENTIMENT_LEXICON
    /\ \/ /\ pc = "process_post"
          /\ raw_posts \in {<<post>> : post \in ProcessInputs \cup TitlePosts}
       \/ /\ pc = "process"
          /\ raw_posts \in SeqsUpTo(TitlePosts, MaxTitlePosts)
    /\ text = <<>>
    /\ cleaned = <<>>
    /\ mode = <<>>
    /\ analyzer = [use_ml_models |-> FALSE, vader |-> FALSE, textblob |-> FALSE]
    /\ ai = FALSE
    /\ top_n = 0
    /\ NoAnalysis
    /\ NoReport
    /\ trace = <<>>
    /\ NoEntry
    /\ NoCalls

\* one call of TextProcessor.process_post
ProcessPost ==
    /\ pc = "process_post"
    /\ processed_posts' = <<process_post(raw_posts[1])>>
    /\ pc' = "processed"
    /\ UNCHANGED <<cleanVars, entryVars, callVars, configVars, analyzed_posts,
                   sentiment_dist, themes, high_impact, reportVars, trace>>

NextProcess ==
    \/ ProcessPost
    \/ ProcessPosts

SpecProcess == InitProcess /\ [][NextProcess]_vars
-----------------------------------------------------------------------------
(* analyze_sentiment_lexicon called directly, several times, on bounded texts *)

\* the number of words of a text
MaxWords == 4

\* the number of calls in one behaviour
MaxCalls == 3

\* the words the texts are made of: weights 5, -4, 1, -1 and a word that is
\* not in the lexicon; capitals and punctuation are for lower() and \b\w+\b
Vocabulary ==
    { <<"A","m","a","z","i","n","g","!">>, <<"t","e","r","r","i","b","l","e">>,
      <<"o","k","a","y">>, <<"i","s","s","u","e",",">>, <<"p","h","o","n","e">> }

LexiconTexts == {Join(<<" ">>, ws) : ws \in SeqsUpTo(Vocabulary, MaxWords)}

\* the text of the calls made in between
OTHER_TEXT == <<"b","a","d"," ","p","h","o","n","e">>

\* the instances the calls are made on
LexiconInstances == {Analyzer(FALSE, FALSE, FALSE), Analyzer(TRUE, TRUE, TRUE)}

InitLexicon ==
    /\ lexicon = SENTIMENT_LEXICON
    /\ pc = "lexicon"
    /\ text \in LexiconTexts
    /\ cleaned = <<>>
    /\ raw_posts = <<>>
    /\ mode = <<>>
    /\ analyzer \in LexiconInstances
    /\ ai = FALSE
    /\ top_n = 0
    /\ NoAnalysis
    /\ NoReport
    /\ trace = <<>>
    /\ NoEntry
    /\ calls = <<>>
    /\ markdown = <<>>

\* one call of analyze_sentiment_lexicon on the current instance
AnalyzeSentimentLexicon(txt) ==
    /\ pc = "lexicon"
    /\ Len(calls) < MaxCalls
    /\ calls' = Append(calls, [text |-> txt, result |-> analyze_sentiment_lexicon(txt)])
    /\ UNCHANGED <<pc, cleanVars, entryVars, lexicon, markdown, configVars, analysisVars,
                   reportVars, trace>>

CallLexicon == \E txt \in {text, OTHER_TEXT} : AnalyzeSentimentLexicon(txt)

\* NLPAnalyzer(use_ml_models): the next calls are made on another instance
NewAnalyzer ==
    /\ pc = "lexicon"
    /\ Len(calls) < MaxCalls
    /\ analyzer' \in LexiconInstances \ {analyzer}
    /\ UNCHANGED <<pc, cleanVars, entryVars, callVars, raw_posts, mode, ai, top_n,
                   analysisVars, reportVars, trace>>

NextLexicon ==
    \/ CallLexicon
    \/ NewAnalyzer

SpecLexicon == InitLexicon /\ [][NextLexicon]_vars
-----------------------------------------------------------------------------
(* generate_full_report and then format_markdown_report on its report *)

\* the number of posts behind a rendered report
MaxRenderedPosts == 1

InitMarkdown ==
    /\ lexicon = SENTIMENT_LEXICON
    /\ pc = "summary"
    /\ text = <<>>
    /\ cleaned = <<>>
    /\ raw_posts = <<>>
    /\ mode \in Modes
    /\ analyzer = Analyzer(FALSE, FALSE, FALSE)
    /\ ai \in BOOLEAN
    /\ top_n \in {0, DEFAULT_TOP_N}
    /\ processed_posts \in SeqsUpTo(ProcessedPool, MaxRenderedPosts) \ {<<>>}
    /\ analyzed_posts =
           analyze_posts(analyzer, processed_posts,
                         [k \in DOMAIN processed_posts |-> MlAnswer(0, 0, FALSE)])
    /\ sentiment_dist = calculate_sentiment_distribution(analyzed_posts)
    /\ themes = IF Contains(mode, <<"t","h","e","m","e","s">>)
                THEN extract_themes(analyzed_posts)
                ELSE <<>>
    /\ high_impact = get_high_impact_issues(analyzed_posts, top_n)
    /\ NoReport
    /\ trace = <<>>
    /\ NoEntry
    /\ calls = <<>>
    /\ markdown = <<>>

\* what the call of format_markdown_report leaves: the text, or the exception
Render(out) ==
    /\ pc = "done"
    /\ report # <<>>
    /\ markdown' = IF out.raises THEN <<>> ELSE <<out.lines>>
    /\ pc' = IF out.raises THEN "render failed" ELSE "rendered"
    /\ Stage("markdown")
    /\ UNCHANGED <<cleanVars, entryVars, lexicon, calls, configVars, analysisVars, reportVars>>

\* gen.format_markdown_report(report)
FormatMarkdownReport == Render(format_markdown_report(report[1]))

NextMarkdown ==
    \/ GenerateExecutiveSummary
    \/ GenerateProductInsights
    \/ GenerateActionItems
    \/ AssembleReport
    \/ FormatMarkdownReport

SpecMarkdown == InitMarkdown /\ [][NextMarkdown]_vars
-----------------------------------------------------------------------------
(* analyze_posts and extract_themes on posts with long titles *)

\* the number of posts in a list handed to the analyzer with long titles
MaxThemePosts == 3

BATTERY_WORD == <<"b","a","t","t","e","r","y"," ">>

\* a title of exactly EXAMPLE_LENGTH characters, and one of a character more
POST_TITLE_70 ==
    RedditPost("t1", BATTERY_WORD \o Repeat("x", EXAMPLE_LENGTH - Len(BATTERY_WORD)),
               <<>>, 1, 0, <<>>)

POST_TITLE_71 ==
    RedditPost("t2", BATTERY_WORD \o Repeat("y", EXAMPLE_LENGTH + 1 - Len(BATTERY_WORD)),
               <<>>, 2, 0, <<>>)

POST_DIED ==
    RedditPost("t3", <<"B","a","t","t","e","r","y"," ","d","i","e","d">>, <<>>, 3, 1, <<>>)

\* a positive post on the theme of POST_BATTERY, which is negative
POST_LOVED ==
    RedditPost("t4", <<"L","o","v","e"," ","t","h","e"," ","b","a","t","t","e","r","y">>,
               <<>>, 4, 0, <<>>)

\* the posts with long titles, a short one, one that matches no theme, a
\* negative one with a keyword in its comments, and a positive one
ThemePool ==
    Range(process_posts(<<POST_TITLE_70, POST_TITLE_71, POST_DIED, POST_UNBOXED,
                          POST_BATTERY, POST_LOVED>>))

InitThemes ==
    /\ lexicon = SENTIMENT_LEXICON
    /\ pc = "analyze"
    /\ text = <<>>
    /\ cleaned = <<>>
    /\ raw_posts = <<>>
    /\ mode = MODE_THEMES
    /\ analyzer = Analyzer(FALSE, FALSE, FALSE)
    /\ ai = FALSE
    /\ top_n = DEFAULT_TOP_N
    /\ processed_posts \in SeqsUpTo(ThemePool, MaxThemePosts)
    /\ analyzed_posts = <<>>
    /\ sentiment_dist = [positive |-> 0, neutral |-> 0, negative |-> 0]
    /\ themes = <<>>
    /\ high_impact = <<>>
    /\ NoReport
    /\ trace = <<>>
    /\ NoEntry
    /\ NoCalls

NextThemes ==
    \/ AnalyzePosts
    \/ CalculateSentimentDistribution
    \/ ExtractThemes

SpecThemes == InitThemes /\ [][NextThemes]_vars
-----------------------------------------------------------------------------
(* AIInsights.generate_action_items called directly, on what _generate returns *)

\* the number of calls of generate_action_items in one behaviour
MaxItemCalls == 2

\* the number of posts behind the issues and themes handed to the calls
MaxItemPosts == 1

\* _generate catches the errors of its provider and returns "": what it
\* returns is a response that does not raise
GeneratedResponses == {r \in Responses : ~r.raises}

\* the exception met inside the try block of generate_action_items:
\* re.search on None, json.loads on text that is not JSON
ParseError(r) ==
    IF r.none THEN "TypeError"
    ELSE IF r.braces /\ ~r.json_ok THEN "JSONDecodeError"
    ELSE "none"

\* the call with the exception of the try block let out
ActionItemsCallUncaught(r) ==
    IF ParseError(r) # "none"
    THEN [raised |-> TRUE, items |-> <<>>]
    ELSE [raised |-> FALSE, items |-> generate_action_items(r)]

\* one call of AIInsights.generate_action_items: except: pass, return []
ActionItemsCall(r) ==
    IF ParseError(r) # "none"
    THEN [raised |-> FALSE, items |-> <<>>]
    ELSE [raised |-> FALSE, items |-> generate_action_items(r)]

InitActionItems ==
    /\ lexicon = SENTIMENT_LEXICON
    /\ pc = "generate_action_items"
    /\ text = <<>>
    /\ cleaned = <<>>
    /\ raw_posts = <<>>
    /\ mode = MODE_THEMES
    /\ analyzer = Analyzer(FALSE, FALSE, FALSE)
    /\ ai = TRUE
    /\ top_n = DEFAULT_TOP_N
    /\ processed_posts \in SeqsUpTo(ProcessedPool, MaxItemPosts)
    /\ analyzed_posts =
           analyze_posts(analyzer, processed_posts,
                         [k \in DOMAIN processed_posts |-> MlAnswer(0, 0, FALSE)])
    /\ sentiment_dist = calculate_sentiment_distribution(analyzed_posts)
    /\ themes = extract_themes(analyzed_posts)
    /\ high_impact = get_high_impact_issues(analyzed_posts, top_n)
    /\ NoReport
    /\ trace = <<>>
    /\ NoEntry
    /\ NoCalls

\* self.ai.generate_action_items(high_impact, themes), answered by r
CallActionItems ==
    /\ pc = "generate_action_items"
    /\ Len(calls) < MaxItemCalls
    /\ \E r \in GeneratedResponses :
           calls' = Append(calls, [response |-> r, result |-> ActionItemsCall(r)])
    /\ UNCHANGED <<pc, cleanVars, entryVars, lexicon, markdown, configVars, analysisVars,
                   reportVars, trace>>

NextActionItems == CallActionItems

SpecActionItems == InitActionItems /\ [][NextActionItems]_vars
-----------------------------------------------------------------------------
(* clean_text applied to its own result *)

\* a line that starts with a space before the word "source"
SOURCE_LINE == <<" ","s","o","u","r","c","e",":"," ","x">>

TwiceInputs == CleanInputs \cup {SOURCE_LINE}

InitCleanTwice ==
    /\ lexicon = SENTIMENT_LEXICON
    /\ pc = "clean_text"
    /\ text \in TwiceInputs
    /\ cleaned = <<>>
    /\ NoConfig
    /\ NoAnalysis
    /\ NoReport
    /\ trace = <<>>
    /\ NoEntry
    /\ NoCalls

\* clean_text(cleaned): the second call takes the result of the first
CleanAgain ==
    /\ pc = "cleaned"
    /\ text' = cleaned
    /\ cleaned' = clean_text(cleaned)
    /\ pc' = "cleaned again"
    /\ UNCHANGED <<entryVars, callVars, configVars, analysisVars, reportVars, trace>>

NextCleanTwice == CleanText \/ CleanAgain

SpecCleanTwice == InitCleanTwice /\ [][NextCleanTwice]_vars
-----------------------------------------------------------------------------
(* RedditFetcher.fetch_posts: PullPush first, Reddit as the fallback *)

\* the number of posts one provider returns
MaxFetched == 2

\* for post in posts[:10]: only the first ten posts get their comments
COMMENT_POSTS == 10

\* a JSON null in an item of the listing; a number n is written <<n>>
NULL == <<>>

\* RedditPost(...) as both providers build it from an item of the listing:
\* num_comments is item.get('num_comments', 0), kept as the item gave it, a
\* number or null; comments is the empty list
FetchedPosts ==
    {RedditPost("f1", <<"H","e","l","l","o","!">>, <<>>, 1, <<0>>, <<>>),
     RedditPost("f2", <<"B","a","t","t","e","r","y"," ","d","i","e","d">>, <<>>, 3, <<2>>, <<>>),
     RedditPost("f3", <<"N","o"," ","c","o","u","n","t">>, <<>>, 1, NULL, <<>>)}

Listings ==
    {s \in SeqsUpTo(FetchedPosts, MaxFetched) :
        \A i, j \in DOMAIN s : s[i].id = s[j].id => i = j}

\* what _fetch_comments_pullpush and _fetch_comments_reddit return: they catch
\* every exception and return the empty list
CommentAnswers == {<<>>, << <<"n","i","c","e">> >>}

\* the values of comments_per_post after max(0, min(50, ...))
CommentsPerPost == {0, 1}

\* how _fetch_from_pullpush ends: 404, another status that is not ok, an
\* exception of the request or of response.json(), or a list of posts
PullPushErrors == {"pullpush: ValueError not found", "pullpush: ConnectionError",
                   "pullpush: RequestException"}

\* post.num_comments > 0 on a count that is None
COMMENT_PASS_ERROR == "TypeError in the comment pass"

\* how _fetch_from_reddit ends when it raises: 404, 403, another status that
\* is not ok, an exception of the request
RedditErrors == {"reddit: ValueError not found", "reddit: ValueError not accessible",
                 "reddit: ConnectionError", "reddit: ConnectionError network"}

\* the comparison post.num_comments > 0 is made, for comments_per_post > 0, on
\* the first posts of the listing, and raises TypeError on a count that is None
CommentPassRaises(posts, comments_per_post) ==
    /\ comments_per_post > 0
    /\ \E k \in DOMAIN posts : k <= COMMENT_POSTS /\ posts[k].num_comments = NULL

Attempt(provider, outcome, posts) ==
    [provider |-> provider, outcome |-> outcome, posts |-> posts]

\* post.comments = self._fetch_comments_...(post.id, comments_per_post) for
\* the posts that have comments
WithComments(posts, comments_per_post, answers) ==
    [k \in DOMAIN posts |->
        IF /\ comments_per_post > 0
           /\ k <= COMMENT_POSTS
           /\ posts[k].num_comments # NULL
           /\ posts[k].num_comments[1] > 0
        THEN [posts[k] EXCEPT !.comments = answers[k]]
        ELSE posts[k]]

InitFetch ==
    /\ lexicon = SENTIMENT_LEXICON
    /\ pc = "fetch_posts"
    /\ text = <<>>
    /\ cleaned = <<>>
    /\ NoConfig
    /\ NoAnalysis
    /\ NoReport
    /\ trace = <<>>
    /\ subreddit \in Subreddits
    /\ requested = FALSE
    /\ NoCalls

\* if not subreddit or not subreddit.strip(): raise ValueError
RejectBlankName ==
    /\ pc = "fetch_posts"
    /\ Strip(subreddit) = <<>>
    /\ pc' = "raised"
    /\ Stage("ValueError empty name")
    /\ UNCHANGED <<cleanVars, entryVars, callVars, configVars, analysisVars, reportVars>>

\* the try block of fetch_posts: _fetch_from_pullpush, the comments of the
\* posts it returned, return posts; except Exception: go on to Reddit
TryPullPush ==
    /\ pc = "fetch_posts"
    /\ Strip(subreddit) # <<>>
    /\ subreddit' = Strip(subreddit)
    /\ requested' = TRUE
    /\ \/ \E e \in PullPushErrors :
            /\ calls' = Append(calls, Attempt("pullpush", e, <<>>))
            /\ pc' = "reddit"
            /\ UNCHANGED <<raw_posts, trace>>
       \/ /\ calls' = Append(calls, Attempt("pullpush", "posts", <<>>))
          /\ pc' = "reddit"
          /\ UNCHANGED <<raw_posts, trace>>
       \/ \E posts \in Listings \ {<<>>}, n \in CommentsPerPost :
            \E answers \in [DOMAIN posts -> CommentAnswers] :
                IF CommentPassRaises(posts, n)
                THEN /\ calls' = Append(calls, Attempt("pullpush", COMMENT_PASS_ERROR, posts))
                     /\ pc' = "reddit"
                     /\ UNCHANGED <<raw_posts, trace>>
                ELSE /\ calls' = Append(calls, Attempt("pullpush", "posts", posts))
                     /\ raw_posts' = WithComments(posts, n, answers)
                     /\ pc' = "returned"
                     /\ Stage("returned")
    /\ UNCHANGED <<cleanVars, lexicon, markdown, mode, analyzer, ai, top_n, analysisVars,
                   reportVars>>

\* return self._fetch_from_reddit(subreddit, limit, sort, comments_per_post)
FetchFromReddit ==
    /\ pc = "reddit"
    /\ \/ \E e \in RedditErrors :
            /\ calls' = Append(calls, Attempt("reddit", e, <<>>))
            /\ pc' = "raised"
            /\ Stage(e)
            /\ UNCHANGED raw_posts
       \/ \E posts \in Listings, n \in CommentsPerPost :
            \E answers \in [DOMAIN posts -> CommentAnswers] :
                IF CommentPassRaises(posts, n)
                THEN \* TypeError is no RequestException: it leaves _fetch_from_reddit
                     /\ calls' = Append(calls, Attempt("reddit", COMMENT_PASS_ERROR, posts))
                     /\ pc' = "raised"
                     /\ Stage(COMMENT_PASS_ERROR)
                     /\ UNCHANGED raw_posts
                ELSE /\ calls' = Append(calls, Attempt("reddit", "posts", posts))
                     /\ raw_posts' = WithComments(posts, n, answers)
                     /\ pc' = "returned"
                     /\ Stage("returned")
    /\ UNCHANGED <<cleanVars, entryVars, lexicon, markdown, mode, analyzer, ai, top_n,
                   analysisVars, reportVars>>

NextFetch ==
    \/ RejectBlankName
    \/ TryPullPush
    \/ FetchFromReddit

SpecFetch == InitFetch /\ [][NextFetch]_vars
-----------------------------------------------------------------------------
(* The claims *)

\* C1: with a generative capability configured, whenever the generative call
\* of generate_product_insights fails (an empty string, text with no parseable
\* JSON object, or an exception), the product insights returned are exactly
\* the rule-based dict built from the same analyzed posts and themes.
C1_BaselineOnFailure ==
    (/\ pc = "action_items"
     /\ ai
     /\ response # <<>>
     /\ (response[1].raises \/ ~Parses(response[1])))
        => product_insights = <<RuleInsights(analyzed_posts, themes)>>

\* C2: in every report generate_full_report returns, ai_enhanced is true only
\* if the action-items step ran and returned a non-empty list.
C2_EnhancedOnlyWithItems ==
    (report # <<>> /\ report[1].ai_enhanced)
        => (~report[1].action_items.is_none /\ report[1].action_items.items # <<>>)

\* C3: for a non-empty batch and whatever the three generative calls answer
\* (text, an empty string, malformed JSON, an exception), generate_full_report
\* lets no exception out and eventually returns an InsightReport.
C3_ReportAlwaysReturned ==
    /\ [](~raised)
    /\ (pc = "summary" /\ analyzed_posts # <<>>) ~> (pc = "done" /\ report # <<>>)

\* C3 happens: a report is returned although the generative calls failed: the
\* action-items call raised, and the summary and the insights are rule-based.
C3_ReportDespiteFailures ==
    /\ pc = "done"
    /\ report # <<>>
    /\ ai
    /\ response # <<>>
    /\ response[1].raises
    /\ action_items.is_none
    /\ executive_summary[1].source = "rule"
    /\ product_insights = <<RuleInsights(analyzed_posts, themes)>>

\* C4: in every result of generate_product_insights, each of likes,
\* frustrations, worsening and improving is a non-empty list.
C4_CategoriesNonEmpty ==
    product_insights # <<>>
        => \A key \in {"likes", "frustrations", "worsening", "improving"} :
               /\ key \in DOMAIN product_insights[1]
               /\ product_insights[1][key] # <<>>

\* C5: for every post analyze_posts has processed, impact_score is
\* score + num_comments + 10 when the label is negative and
\* score + num_comments otherwise.
C5_ImpactScore ==
    Ran("analyze")
        => /\ Len(analyzed_posts) = Len(processed_posts)
           /\ \A k \in DOMAIN analyzed_posts :
                  LET engagement == processed_posts[k].score + processed_posts[k].num_comments
                  IN  analyzed_posts[k].impact_score =
                          IF analyzed_posts[k].sentiment.label = "negative"
                          THEN engagement + 10
                          ELSE engagement

\* C5 happens: one analyzed list holds a negative post and a post that is not
C5_NegativeAndOther ==
    /\ Ran("analyze")
    /\ \E j, k \in DOMAIN analyzed_posts :
           /\ analyzed_posts[j].sentiment.label = "negative"
           /\ analyzed_posts[k].sentiment.label # "negative"

C7_ThemesTopSix ==
    Ran("themes")
        => LET Taxonomy(name) ==
                   CHOOSE k \in DOMAIN THEME_KEYWORDS : THEME_KEYWORDS[k].name = name
           IN  /\ Len(themes) <= 6
               /\ \A k \in DOMAIN themes : themes[k].count > 0
               /\ \A j, k \in DOMAIN themes :
                      j < k => \/ themes[j].count > themes[k].count
                               \/ /\ themes[j].count = themes[k].count
                                  /\ Taxonomy(themes[j].name) < Taxonomy(themes[k].name)

\* C7 happens: the posts hit all seven themes, six are returned, and two of
\* them have the same count
C7_SeventhThemeCut ==
    /\ Ran("themes")
    /\ \A k \in DOMAIN THEME_KEYWORDS :
           MatchingPosts(analyzed_posts, THEME_KEYWORDS[k]) # {}
    /\ Len(themes) = 6
    /\ \E j, k \in DOMAIN themes : j < k /\ themes[j].count = themes[k].count

\* C8: get_high_impact_issues returns min(top_n, number of posts) entries
\* ordered by impact_score descending, posts of equal impact_score in their
\* input order, and no post left out has a higher impact_score than one
\* returned: entry k is the post that exactly k - 1 posts come before, where a
\* post comes before another when its impact_score is higher, or equal and it
\* stands earlier in the input.
C8_TopRanked ==
    Ran("high impact")
        => LET n == Len(analyzed_posts)
               Before(j, i) ==
                   \/ analyzed_posts[j].impact_score > analyzed_posts[i].impact_score
                   \/ /\ analyzed_posts[j].impact_score = analyzed_posts[i].impact_score
                      /\ j < i
               At(k) == CHOOSE i \in 1..n :
                            Cardinality({j \in 1..n : Before(j, i)}) = k - 1
           IN  /\ Len(high_impact) = IF top_n <= n THEN top_n ELSE n
               /\ \A k \in DOMAIN high_impact :
                      /\ high_impact[k].title = analyzed_posts[At(k)].title
                      /\ high_impact[k].impact_score = analyzed_posts[At(k)].impact_score
                      /\ high_impact[k].score = analyzed_posts[At(k)].score
                      /\ high_impact[k].comments = analyzed_posts[At(k)].num_comments
               /\ \A k \in DOMAIN high_impact : \A i \in 1..n :
                      (\A m \in DOMAIN high_impact : At(m) # i)
                          => analyzed_posts[i].impact_score <= high_impact[k].impact_score

\* C8 happens: a post is left out, and two different posts of equal
\* impact_score are returned
C8_TieAndCut ==
    /\ Ran("high impact")
    /\ top_n < Len(analyzed_posts)
    /\ \E j, k \in DOMAIN high_impact :
           /\ j < k
           /\ high_impact[j].impact_score = high_impact[k].impact_score
           /\ high_impact[j].title # high_impact[k].title

\* C9: the output of clean_text holds no match of the URL pattern, no match of
\* the HTML-entity pattern and no emoji code point.
C9_CleanedHasNoUrlEntityEmoji ==
    pc = "cleaned"
        => /\ ~ReFound(URL_PATTERN, cleaned)
           /\ ~ReFound(HTML_ENTITIES, cleaned)
           /\ \A k \in DOMAIN cleaned : ~IsEmoji(cleaned[k])

\* C10: when no post survives process_posts (the batch is empty or every
\* cleaned title has at most 5 characters), run_analysis ends there: no
\* scoring, theme extraction, ranking or report step runs and there is no
\* report.
C10_HaltsOnEmptyBatch ==
    (Ran("process") /\ processed_posts = <<>>)
        => /\ pc = "done"
           /\ trace = <<"fetch", "process">>
           /\ analyzed_posts = <<>>
           /\ themes = <<>>
           /\ high_impact = <<>>
           /\ executive_summary = <<>>
           /\ product_insights = <<>>
           /\ report = <<>>

\* C10 happens: a batch was fetched and every post of it was filtered out
C10_AllFilteredOut ==
    /\ Ran("process")
    /\ raw_posts # <<>>
    /\ \A k \in DOMAIN raw_posts : Len(clean_text(raw_posts[k].title)) <= 5
    /\ processed_posts = <<>>

\* C11: in process_post a cleaned body longer than 1000 characters becomes its
\* first 1000 characters followed by "...", of length exactly 1003; a cleaned
\* body of at most 1000 characters is kept unchanged, with no marker.
C11_BodyTruncation ==
    (pc = "processed" /\ processed_posts # <<>>)
        => LET body == clean_text(raw_posts[1].selftext)
               out == processed_posts[1].cleaned_body
           IN  IF Len(body) > 1000
               THEN /\ Len(out) = 1003
                    /\ SubSeq(out, 1, 1000) = SubSeq(body, 1, 1000)
                    /\ SubSeq(out, 1001, 1003) = <<".", ".", ".">>
               ELSE out = body

\* C11 happens: a body of more than 1000 characters has been processed, and
\* what is kept ends with the marker.
C11_LongBodyCut ==
    /\ pc = "processed"
    /\ processed_posts # <<>>
    /\ Len(raw_posts[1].selftext) > 1000
    /\ Len(processed_posts[1].cleaned_body) = 1003
    /\ processed_posts[1].cleaned_body[1003] = "."

\* C20: for every post and every sequence of comments, the cleaned_comments
\* string that process_post builds has a length of at most 2000.
C20_CommentsCapped ==
    (pc = "processed" /\ processed_posts # <<>>)
        => Len(processed_posts[1].cleaned_comments) <= 2000

C13_NormalizedAndLabel ==
    \A k \in DOMAIN calls :
        LET matched == SelectSeq(FindWords(Lower(calls[k].text), 1),
                                 LAMBDA w : \E e \in DOMAIN SENTIMENT_LEXICON :
                                                SENTIMENT_LEXICON[e][1] = w)
            n == Len(matched)
            sum == SumWeights(matched)
            r == calls[k].result
        IN  /\ n > 0 => r.raw_score = [num |-> sum, root |-> n, den |-> 1]
            /\ (r.label = "positive") <=> (n > 0 /\ sum > 0 /\ 4 * sum * sum > n)
            /\ (r.label = "negative") <=> (n > 0 /\ sum < 0 /\ 4 * sum * sum > n)
            /\ r.label \in {"positive", "negative", "neutral"}
            /\ n = 0 => (r.label = "neutral" /\ r.score.num = 0 /\ r.raw_score.num = 0)

\* C13 happens: four matched tokens of sum 1 give exactly 1 / sqrt(4) = 0.5,
\* which is not above the threshold, so the text is neutral.
C13_ExactlyHalfIsNeutral ==
    \E k \in DOMAIN calls :
        /\ calls[k].result.raw_score = [num |-> 1, root |-> 4, den |-> 1]
        /\ calls[k].result.label = "neutral"

\* C14: every SentimentResult of the lexicon strategy has a label among
\* positive, neutral and negative, and a confidence |normalized| / 5 in [0, 1].
C14_ConfidenceInUnitInterval ==
    \A k \in DOMAIN calls :
        LET r == calls[k].result
        IN  /\ r.label \in {"positive", "negative", "neutral"}
            /\ r.score.num >= 0
            /\ r.score.num * r.score.num <= r.score.den * r.score.den * r.score.root

\* C15: with the lexicon strategy, the batch of the three documents titled
\* "Love this camera, amazing quality", "Terrible battery, crashes constantly,
\* waste of money" and "Just unboxed my new phone" goes through process_posts,
\* analyze_posts and calculate_sentiment_distribution with the labels positive,
\* negative, neutral in that order and 33.3 percent for each label.
C15_ScenarioA ==
    (raw_posts = SCENARIO_A /\ ~(analyzer.use_ml_models /\ analyzer.vader))
        => /\ Ran("analyze") =>
                  [k \in DOMAIN analyzed_posts |-> analyzed_posts[k].sentiment.label]
                      = <<"positive", "negative", "neutral">>
           /\ Ran("distribution") =>
                  sentiment_dist = [positive |-> 333, neutral |-> 333, negative |-> 333]

\* C15 happens: the three documents have been through the three stages with
\* the lexicon strategy, none of them filtered out.
C15_ScenarioAnalyzed ==
    /\ raw_posts = SCENARIO_A
    /\ ~analyzer.use_ml_models
    /\ Len(processed_posts) = 3
    /\ Len(analyzed_posts) = 3
    /\ Ran("distribution")
    /\ sentiment_dist.neutral = 333

C17_MarkdownTotal ==
    pc # "render failed"

\* C18: generate_executive_summary on a non-empty batch returns the generative
\* summary iff a capability is configured, its call did not raise, and the text
\* it returned is longer than 50 characters; in every other case it returns
\* the rule-based summary built from the posts, themes and distribution.
C18_SummarySource ==
    (pc = "insights" /\ analyzed_posts # <<>>)
        => LET accepted == /\ ai
                           /\ response # <<>>
                           /\ ~response[1].raises
                           /\ ~response[1].none
                           /\ response[1].len > 50
           IN  /\ executive_summary # <<>>
               /\ accepted => /\ executive_summary[1].source = "ai"
                              /\ executive_summary[1].length = response[1].len
               /\ ~accepted => executive_summary[1] =
                                   Summary("rule", 0,
                                           RuleSummaryParts(analyzed_posts, themes,
                                                            sentiment_dist))

\* C18 happens: the capability answered with exactly 50 characters and the
\* rule-based summary was returned.
C18_FiftyCharactersFallBack ==
    /\ pc = "insights"
    /\ analyzed_posts # <<>>
    /\ ai
    /\ response # <<>>
    /\ ~response[1].raises
    /\ ~response[1].none
    /\ response[1].len = 50
    /\ executive_summary[1].source = "rule"

\* C19: with an empty or whitespace-only subreddit the run ends in an input
\* error and nothing else happens: the button handler reports the error
\* without calling run_analysis, fetch_posts raises ValueError before any
\* request, and no request, cleaning, scoring or report step is executed.
C19_BlankSubredditStops ==
    Strip(subreddit) = <<>>
        => /\ ~requested
           /\ pc \in {"button", "fetch", "done"}
           /\ pc = "button" => trace = <<>>
           /\ pc = "fetch" => trace = <<>>
           /\ pc = "done" => trace \in {<<"app error">>, <<"input error">>}
           /\ raw_posts = <<>>
           /\ processed_posts = <<>>
           /\ analyzed_posts = <<>>
           /\ executive_summary = <<>>
           /\ report = <<>>

\* C19 happens: run_analysis was called with a whitespace-only name and
\* fetch_posts raised before any request.
C19_WhitespaceNameRejected ==
    /\ pc = "done"
    /\ subreddit # <<>>
    /\ Strip(subreddit) = <<>>
    /\ trace = <<"input error">>
    /\ ~requested

\* C21: for every returned theme, with n the number of posts that matched at
\* least one of its keywords, the mood is negative iff the negative-labelled
\* matching posts are more than half of n, positive iff that does not hold and
\* the positive-labelled matching posts are more than half of n, and mixed
\* otherwise; an exact half is mixed.
C21_ThemeMood ==
    Ran("themes")
        => \A k \in DOMAIN themes :
               LET Taxonomy(name) ==
                       CHOOSE t \in DOMAIN THEME_KEYWORDS : THEME_KEYWORDS[t].name = name
                   hit == MatchingPosts(analyzed_posts,
                                        THEME_KEYWORDS[Taxonomy(themes[k].name)])
                   n == Cardinality(hit)
                   neg == Cardinality({i \in hit :
                                          analyzed_posts[i].sentiment.label = "negative"})
                   pos == Cardinality({i \in hit :
                                          analyzed_posts[i].sentiment.label = "positive"})
               IN  /\ n > 0
                   /\ themes[k].mood \in {"negative", "positive", "mixed"}
                   /\ (themes[k].mood = "negative") <=> (2 * neg > n)
                   /\ (themes[k].mood = "positive") <=> (~(2 * neg > n) /\ 2 * pos > n)

\* C21 happens: a returned theme was matched by two posts, one negative and
\* one positive, and its mood is mixed.
C21_EvenSplitIsMixed ==
    /\ Ran("themes")
    /\ \E k \in DOMAIN themes :
           LET Taxonomy(name) ==
                   CHOOSE t \in DOMAIN THEME_KEYWORDS : THEME_KEYWORDS[t].name = name
               hit == MatchingPosts(analyzed_posts,
                                    THEME_KEYWORDS[Taxonomy(themes[k].name)])
           IN  /\ Cardinality(hit) = 2
               /\ \E i, j \in hit : /\ analyzed_posts[i].sentiment.label = "negative"
                                    /\ analyzed_posts[j].sentiment.label = "positive"
               /\ themes[k].mood = "mixed"

\* C22: extract_themes matches a post by its lower-cased title and body only:
\* every returned theme's count is the sum, over the posts, of the number of
\* its keywords found in the title and body, its examples are titles of posts
\* matched that way, and a theme whose keywords stand only in comments is not
\* returned; the count is a number of keyword hits, not of posts.
C22_ThemesFromTitleAndBody ==
    Ran("themes")
        => \A t \in DOMAIN THEME_KEYWORDS :
               LET hits == [i \in DOMAIN analyzed_posts |->
                               MatchesIn(PoolMatches, THEME_KEYWORDS[t],
                                         Lower(analyzed_posts[i].title \o <<" ">>
                                               \o analyzed_posts[i].body))]
                   total == SumOver(hits, DOMAIN analyzed_posts)
                   matched == {i \in DOMAIN analyzed_posts : hits[i] > 0}
                   returned == {k \in DOMAIN themes : themes[k].name = THEME_KEYWORDS[t].name}
                   neg == Cardinality({i \in matched :
                                          analyzed_posts[i].sentiment.label = "negative"})
                   pos == Cardinality({i \in matched :
                                          analyzed_posts[i].sentiment.label = "positive"})
               IN  /\ total = 0 => returned = {}
                   /\ \A k \in returned :
                          /\ themes[k].count = total
                          /\ \A e \in DOMAIN themes[k].examples :
                                 \E i \in matched :
                                     themes[k].examples[e] = Prefix(analyzed_posts[i].title, 70)
                          /\ themes[k].mood =
                                 IF 2 * neg > Cardinality(matched) THEN "negative"
                                 ELSE IF 2 * pos > Cardinality(matched) THEN "positive"
                                 ELSE "mixed"

\* C22 happens: the comments of a post hold a keyword of a theme that is not
\* returned, and a returned theme counts more keyword hits than there are posts.
C22_CommentKeywordIgnored ==
    /\ Ran("themes")
    /\ \E t \in DOMAIN THEME_KEYWORDS :
           /\ \E i \in DOMAIN analyzed_posts, w \in DOMAIN THEME_KEYWORDS[t].keywords :
                  Contains(Lower(analyzed_posts[i].cleaned_comments),
                           THEME_KEYWORDS[t].keywords[w])
           /\ \A k \in DOMAIN themes : themes[k].name # THEME_KEYWORDS[t].name
    /\ \E k \in DOMAIN themes : themes[k].count > Len(analyzed_posts)

\* C23: every returned theme has at most 2 examples, each at most 70
\* characters long: the titles, cut to 70 characters, of the first two posts in
\* input order that matched the theme; posts that match later replace nothing.
C23_ThemeExamples ==
    Ran("themes")
        => \A k \in DOMAIN themes :
               LET Taxonomy(name) ==
                       CHOOSE t \in DOMAIN THEME_KEYWORDS : THEME_KEYWORDS[t].name = name
                   hit == MatchingPosts(analyzed_posts,
                                        THEME_KEYWORDS[Taxonomy(themes[k].name)])
                   Nth(e) == CHOOSE i \in hit : Cardinality({j \in hit : j < i}) = e - 1
                   examples == themes[k].examples
               IN  /\ Len(examples) <= 2
                   /\ Len(examples) = IF Cardinality(hit) < 2 THEN Cardinality(hit) ELSE 2
                   /\ \A e \in DOMAIN examples :
                          /\ Len(examples[e]) <= 70
                          /\ examples[e] =
                                 IF Len(analyzed_posts[Nth(e)].title) <= 70
                                 THEN analyzed_posts[Nth(e)].title
                                 ELSE SubSeq(analyzed_posts[Nth(e)].title, 1, 70)

\* C23 happens: three posts with different titles matched a theme, the
\* second title is 71 characters long and its example 70, and the third title
\* is not an example.
C23_ThirdMatchNotAnExample ==
    /\ Ran("themes")
    /\ Len(analyzed_posts) = 3
    /\ \A i, j \in 1..3 : i # j => analyzed_posts[i].title # analyzed_posts[j].title
    /\ Len(analyzed_posts[2].title) = 71
    /\ \E k \in DOMAIN themes :
           /\ MatchingPosts(analyzed_posts, THEME_KEYWORDS[1]) = {1, 2, 3}
           /\ themes[k].name = THEME_KEYWORDS[1].name
           /\ Len(themes[k].examples) = 2
           /\ Len(themes[k].examples[2]) = 70
           /\ \A e \in 1..2 : themes[k].examples[e] # Prefix(analyzed_posts[3].title, 70)

\* C24: in every ProcessedPost that process_post returns, combined_text is
\* the trimmed cleaned_title + " " + cleaned_title + " " + cleaned_body + " " +
\* cleaned_comments and has_content is (length of cleaned_title > 5); and
\* process_posts returns exactly the posts with has_content true, in input
\* order.
C24_CombinedTextAndFilter ==
    /\ \A k \in DOMAIN processed_posts :
           LET p == processed_posts[k]
               joined == p.cleaned_title \o <<" ">> \o p.cleaned_title \o <<" ">>
                           \o p.cleaned_body \o <<" ">> \o p.cleaned_comments
               inner == {i \in DOMAIN joined : joined[i] \notin {" ", "\t", "\n", "\r"}}
           IN  /\ p.has_content = (Len(p.cleaned_title) > 5)
               /\ p.combined_text =
                      IF inner = {} THEN <<>>
                      ELSE SubSeq(joined,
                                  CHOOSE i \in inner : \A j \in inner : i <= j,
                                  CHOOSE i \in inner : \A j \in inner : j <= i)
    /\ Ran("process")
           => LET kept == {i \in DOMAIN raw_posts :
                              Len(clean_text(raw_posts[i].title)) > 5}
                  Nth(e) == CHOOSE i \in kept : Cardinality({j \in kept : j < i}) = e - 1
              IN  /\ Len(processed_posts) = Cardinality(kept)
                  /\ \A e \in DOMAIN processed_posts :
                         /\ processed_posts[e].has_content
                         /\ processed_posts[e].id = raw_posts[Nth(e)].id
                         /\ processed_posts[e].cleaned_title =
                                clean_text(raw_posts[Nth(e)].title)

\* C24 happens: process_posts was given a post whose cleaned title has 5
\* characters and then one whose cleaned title has 6, and returned the second
\* alone, its title twice in combined_text before its body and its comment.
C24_FiveDroppedSixKept ==
    /\ Ran("process")
    /\ Len(raw_posts) = 2
    /\ Len(clean_text(raw_posts[1].title)) = 5
    /\ Len(clean_text(raw_posts[2].title)) = 6
    /\ Len(processed_posts) = 1
    /\ processed_posts[1].id = raw_posts[2].id
    /\ processed_posts[1].combined_text =
           <<"H","e","l","l","o","!"," ","H","e","l","l","o","!"," ",
             "s","o","m","e"," ","b","o","d","y"," ","n","i","c","e">>

\* C25: the rule-based executive summary of a non-empty batch has exactly one
\* sentiment headline: the negative template iff negative% > 50, the positive
\* template iff negative% <= 50 and positive% > 50, the mixed template
\* otherwise; and the themes, concerns and praise sentences are each present
\* iff the themes, the negative posts and the positive posts are non-empty.
C25_RuleSummarySentences ==
    (/\ executive_summary # <<>>
     /\ executive_summary[1].source = "rule"
     /\ analyzed_posts # <<>>)
        => LET parts == executive_summary[1].parts
               Has(name) == \E k \in DOMAIN parts : parts[k].sentence = name
               headlines == {k \in DOMAIN parts :
                                parts[k].sentence \in {"predominantly negative",
                                                       "generally positive", "mixed"}}
               neg == sentiment_dist.negative
               pos == sentiment_dist.positive
           IN  /\ Cardinality(headlines) = 1
               /\ Has("predominantly negative") <=> neg > 500
               /\ Has("generally positive") <=> (neg <= 500 /\ pos > 500)
               /\ Has("mixed") <=> (neg <= 500 /\ pos <= 500)
               /\ Has("themes") <=> themes # <<>>
               /\ Has("concerns") <=>
                      \E i \in DOMAIN analyzed_posts :
                          analyzed_posts[i].sentiment.label = "negative"
               /\ Has("praise") <=>
                      \E i \in DOMAIN analyzed_posts :
                          analyzed_posts[i].sentiment.label = "positive"

\* C25 happens: half of the posts are negative and half positive, there are
\* no themes, and the summary has the mixed headline, the concerns and the
\* praise sentences and no themes sentence.
C25_HalfAndHalfIsMixed ==
    /\ executive_summary # <<>>
    /\ executive_summary[1].source = "rule"
    /\ sentiment_dist.negative = 500
    /\ sentiment_dist.positive = 500
    /\ themes = <<>>
    /\ LET parts == executive_summary[1].parts
       IN  /\ parts[1].sentence = "mixed"
           /\ \E k \in DOMAIN parts : parts[k].sentence = "concerns"
           /\ \E k \in DOMAIN parts : parts[k].sentence = "praise"
           /\ ~\E k \in DOMAIN parts : parts[k].sentence = "themes"

\* C26: AIInsights.generate_action_items never raises because of the response
\* that was generated: when the response is empty, holds no text between
\* braces, or is not valid JSON, the call returns an empty list.
C26_ActionItemsNeverRaise ==
    \A i \in DOMAIN calls :
        ("response" \in DOMAIN calls[i])
            => /\ ~calls[i].result.raised
               /\ (\/ calls[i].response.len = 0
                   \/ ~calls[i].response.braces
                   \/ ~calls[i].response.json_ok)
                      => calls[i].result.items = <<>>

\* C26 happens: a call answered with malformed JSON returned the empty list,
\* and a call answered with an object holding items returned them.
C26_MalformedJsonGivesEmptyList ==
    \E i, j \in DOMAIN calls :
        /\ "response" \in DOMAIN calls[i]
        /\ "response" \in DOMAIN calls[j]
        /\ calls[i].response.braces
        /\ ~calls[i].response.json_ok
        /\ calls[i].result = [raised |-> FALSE, items |-> <<>>]
        /\ calls[j].result.items # <<>>

\* C27: within one pipeline run the stages occur in the fixed order: clean the
\* batch, score every document, compute the distribution, extract themes (only
\* when the mode contains "themes", otherwise themes is empty), rank the
\* high-impact issues, synthesize summary, insights and action items, then
\* stamp the elapsed processing time and assemble the report; the processing
\* time that is reported covers the synthesis steps.
C27_StagesInOrder ==
    LET order == <<"process", "analyze", "distribution", "themes", "high impact",
                   "summary", "insights", "action items", "stamp", "assemble">>
        ran == IF trace # <<>> /\ trace[1] = "fetch" THEN Tail(trace) ELSE <<>>
    IN  /\ Len(ran) <= Len(order)
        /\ \A k \in DOMAIN ran : ran[k] = order[k]
        /\ (Ran("themes") /\ ~Contains(mode, <<"t","h","e","m","e","s">>)) => themes = <<>>
        /\ \A k \in DOMAIN trace :
               trace[k] = "stamp" =>
                   \E a, b, c \in 1..(k - 1) :
                       /\ trace[a] = "summary"
                       /\ trace[b] = "insights"
                       /\ trace[c] = "action items"


\* C28: no analysis stage mutates its input: analyze_posts leaves the list of
\* processed posts, calculate_sentiment_distribution, extract_themes and
\* get_high_impact_issues leave the list of analyzed posts, and
\* generate_executive_summary and generate_product_insights leave the analyzed
\* posts and the themes with the same elements in the same order and with the
\* same fields.
C28_StagesKeepInputs ==
    [][/\ (pc = "analyze") => (processed_posts' = processed_posts)
       /\ (pc \in {"distribution", "themes", "high_impact"})
              => (analyzed_posts' = analyzed_posts)
       /\ (pc \in {"summary", "insights"})
              => (/\ analyzed_posts' = analyzed_posts
                  /\ themes' = themes
                  /\ processed_posts' = processed_posts)]_vars

\* C28 happens: the six stages have run on a batch whose posts are not in the
\* order of their impact, themes were found, and the analyzed posts are still
\* in the order of the processed posts.
C28_UnsortedBatchAfterStages ==
    /\ Ran("analyze") /\ Ran("distribution") /\ Ran("themes") /\ Ran("high impact")
    /\ Ran("summary") /\ Ran("insights")
    /\ Len(analyzed_posts) >= 2
    /\ analyzed_posts[1].impact_score < analyzed_posts[2].impact_score
    /\ high_impact # <<>>
    /\ high_impact[1].impact_score >= analyzed_posts[2].impact_score
    /\ themes # <<>>
    /\ Len(processed_posts) = Len(analyzed_posts)
    /\ \A k \in DOMAIN analyzed_posts : analyzed_posts[k].id = processed_posts[k].id

\* C29: clean_text is idempotent: clean_text(clean_text(s)) = clean_text(s) for
\* every input s; one pass through the steps leaves nothing that a second
\* pass would remove.
C29_CleanTextIdempotent ==
    pc = "cleaned again" => cleaned = text

\* C30: in fetch_posts with a non-empty subreddit the PullPush
\* provider is tried first; the Reddit fallback is attempted exactly when
\* PullPush raised an exception or returned no posts, never when it returned at
\* least one post; an error raised by PullPush is never surfaced to the caller,
\* only the outcome of the fallback is.
C30_PullPushFirstThenFallback ==
    LET finished == pc \in {"returned", "raised"} /\ calls # <<>>
    IN  /\ calls # <<>> => calls[1].provider = "pullpush"
        /\ Len(calls) <= 2
        /\ Len(calls) = 2 => calls[2].provider = "reddit"
        /\ finished =>
               /\ (Len(calls) = 2)
                      <=> (calls[1].outcome \in PullPushErrors \/ calls[1].posts = <<>>)
               /\ Len(calls) = 2 =>
                      IF calls[2].outcome = "posts"
                      THEN /\ pc = "returned"
                           /\ Len(raw_posts) = Len(calls[2].posts)
                           /\ \A k \in DOMAIN raw_posts : raw_posts[k].id = calls[2].posts[k].id
                      ELSE pc = "raised" /\ trace = <<calls[2].outcome>>
               /\ \A k \in DOMAIN trace : trace[k] \notin PullPushErrors

=============================================================================
